---- MODULE Spec2Model ----
(***************************************************************************)
(* A model of slow-scan-print: the chained input source of src/input.rs    *)
(* (InputSource, ConcatInputSource) and the delay-aware writer of          *)
(* src/lib.rs (SlowScanConfig, SlowScanWrite).                             *)
(*                                                                         *)
(* The cursor `current` is 0-based as in the code; TLA+ sequences are      *)
(* 1-based, so the source at the cursor is sources[current + 1].           *)
(***************************************************************************)
EXTENDS Integers, Sequences, FiniteSets, TLC

\* ------------------------------------------------------------------ bounds
MaxSources == 2
MaxLen == 2
MaxUnits == 3
MaxUris == 3
MaxCount == 3
MaxFiles == 2

\* ------------------------------------------------------------- reader state
VARIABLES
    sources,        \* Vec<InputSource>: records [kind, data, pos]
    current,        \* ConcatInputSource.current (0-based)
    last,           \* the last call of ConcatInputSource::read, as observed
    out,            \* bytes returned to the caller so far: <<source index, byte>>
    verdicts,       \* the kinds of verdict the handler has answered so far
    failing         \* indices of the sources whose most recent read was an Err

rvars == <<sources, current, last, out, verdicts, failing>>

\* ------------------------------------------------------------- writer state
VARIABLES
    wmode,          \* "chunks": slow_scan_write_by_chunks, "chars": ..._by_chars
    units,          \* the items of the input iterator, as code points
    config,         \* SlowScanConfig
    wpc,            \* the writer's position in the loop
    wi,             \* the number of items `iter.next()` has yielded (`it` is units[wi])
    peeked,         \* Peekable's lookahead slot: "no", "some" or "none"
    wlog,           \* the events so far: pulls of the iterator, writes, flushes, sleeps
    wret,           \* the call's result
    unstable,       \* whether the crate is built with feature "unstable"
    sink,           \* the sink written to: the answers and the durations it may give
    wclock          \* the logical clock of the call: [now, deadline, ends, costs]

wenv == <<unstable, sink>>

wvars == <<wmode, units, config, wpc, wi, peeked, wlog, wret, wenv, wclock>>

\* ------------------------------------------------------- from_uris state
VARIABLES
    uris,           \* the list of URIs given to ConcatInputSource::from_uris
    opened,         \* `sources`: the sources opened and pushed so far
    oi,             \* the number of URIs the loop has taken
    oret,           \* what from_uris returned
    fslog,          \* the paths handed to File::open so far, in order
    lastOpen        \* the last call of InputSource::open, as observed

ovars == <<uris, opened, oi, oret, fslog, lastOpen>>

\* ---------------------------------------------------------- config state
VARIABLES
    scfg,           \* a SlowScanConfig, its durations in nanoseconds
    cfgLast         \* the last setter called on it, as observed

cvars == <<scfg, cfgLast>>

\* ------------------------------------------- callers, reference run, host
VARIABLES
    caller,         \* the loop calling ConcatInputSource::read: [mode, stopped, zeros]
    wref,           \* the sink-visible events and the result of a call kept for comparison
    host            \* the program of src/main.rs: main thread, Ctrl-C handler, terminal

xvars == <<caller, wref, host>>

vars == <<rvars, wvars, ovars, cvars, xvars>>

\* ------------------------------------------------------------------ values
\* io::Error values an underlying read may raise, and the handler may return.
Errs == {"EIO", "EINTR"}

\* io::Result<usize>, and the panic of an out-of-bounds index.
Ok(n) == [kind |-> "ok", n |-> n, e |-> "-"]
Err(e) == [kind |-> "err", n |-> 0, e |-> e]
Panic == [kind |-> "panic", n |-> 0, e |-> "-"]
NoResult == [kind |-> "none", n |-> 0, e |-> "-"]

\* ErrorAction: Continue | Abort(io::Error); NoVerdict when the handler is not asked.
Continue == [kind |-> "continue", e |-> "-"]
Abort(e) == [kind |-> "abort", e |-> e]
NoVerdict == [kind |-> "none", e |-> "-"]
ErrorAction == {Continue} \cup {Abort(e) : e \in Errs}

Min(a, b) == IF a < b THEN a ELSE b

\* The bytes of the origin behind source number i (0-based), n bytes long.
FileData(i, n) == [j \in 1..n |-> 10 * (i + 1) + j]

\* The bytes of the process's standard input: one stream, whatever the number
\* of io::stdin() handles on it.
StdinData == <<9>>

\* enum InputSource { Stdin, File, Empty }: the origin's bytes and the number of
\* bytes read through this source.  A file holds up to MaxLen bytes and has a
\* read offset of its own; every Stdin is a handle on the one standard input.
InputSource(i) ==
    {[kind |-> "Empty", data |-> <<>>, pos |-> 0]}
    \cup {[kind |-> "Stdin", data |-> StdinData, pos |-> 0]}
    \cup {[kind |-> "File", data |-> FileData(i, n), pos |-> 0] : n \in 0..MaxLen}

RECURSIVE StdinTaken(_, _)
\* The bytes read from the standard input through the first k sources of srcs.
StdinTaken(srcs, k) ==
    IF k = 0 THEN 0
    ELSE StdinTaken(srcs, k - 1) + (IF srcs[k].kind = "Stdin" THEN srcs[k].pos ELSE 0)

\* The origin source number k (1-based) reads: its bytes and its read offset,
\* which for a Stdin is the offset of the shared stream.
Origin(srcs, k) ==
    IF srcs[k].kind = "Stdin"
    THEN [srcs[k] EXCEPT !.pos = StdinTaken(srcs, Len(srcs))]
    ELSE srcs[k]

Remaining(src) == Len(src.data) - src.pos

\* What one read of a source into a buffer of buflen bytes can answer.
\* Empty: Ok(0) always.  Stdin, File: the operating system's answer, that is
\* an error, or Ok(k) with k = 0 exactly at end-of-data or for an empty buffer
\* and 1 <= k <= min(buflen, remaining) otherwise (short reads are allowed).
InputSourceRead(src, buflen) ==
    IF src.kind = "Empty"
    THEN {Ok(0)}
    ELSE {Err(e) : e \in Errs}
         \cup (IF buflen = 0 \/ Remaining(src) = 0
               THEN {Ok(0)}
               ELSE {Ok(k) : k \in 1..Min(buflen, Remaining(src))})

\* The bytes an Ok(k) read moves into the buffer, and the source afterwards.
Taken(src, r) == [j \in 1..r.n |-> src.data[src.pos + j]]
Advance(src, r) == IF r.kind = "ok" THEN [src EXCEPT !.pos = @ + r.n] ELSE src

\* ConcatInputSource::new
ConcatNew(srcs) == [sources |-> srcs, current |-> 0]

\* ReadMatch with the Abort arm advancing the cursor as the Continue arm does.
ReadMatchAbortAdvances(cur, r, v) ==
    IF r.kind = "ok" /\ r.n = 0
    THEN [current |-> cur + 1, ret |-> Ok(0), handler |-> <<>>]
    ELSE IF r.kind = "ok"
    THEN [current |-> cur, ret |-> Ok(r.n), handler |-> <<>>]
    ELSE IF v.kind = "continue"
    THEN [current |-> cur + 1, ret |-> Ok(0), handler |-> << <<r.e, cur>> >>]
    ELSE [current |-> cur + 1, ret |-> Err(v.e), handler |-> << <<r.e, cur>> >>]

\* ReadMatch with the Abort arm returning the source's error, not the verdict's.
ReadMatchSourceError(cur, r, v) ==
    IF r.kind = "ok" /\ r.n = 0
    THEN [current |-> cur + 1, ret |-> Ok(0), handler |-> <<>>]
    ELSE IF r.kind = "ok"
    THEN [current |-> cur, ret |-> Ok(r.n), handler |-> <<>>]
    ELSE IF v.kind = "continue"
    THEN [current |-> cur + 1, ret |-> Ok(0), handler |-> << <<r.e, cur>> >>]
    ELSE [current |-> cur, ret |-> Err(r.e), handler |-> << <<r.e, cur>> >>]

\* ReadMatch skipping a failing source whatever the handler's verdict.
ReadMatchIgnoresVerdict(cur, r, v) ==
    IF r.kind = "ok" /\ r.n = 0
    THEN [current |-> cur + 1, ret |-> Ok(0), handler |-> <<>>]
    ELSE IF r.kind = "ok"
    THEN [current |-> cur, ret |-> Ok(r.n), handler |-> <<>>]
    ELSE [current |-> cur + 1, ret |-> Ok(0), handler |-> << <<r.e, cur>> >>]

\* ReadMatch handing the handler the cursor after the increment.
ReadMatchHandlerIndex(cur, r, v) ==
    IF r.kind = "ok" /\ r.n = 0
    THEN [current |-> cur + 1, ret |-> Ok(0), handler |-> <<>>]
    ELSE IF r.kind = "ok"
    THEN [current |-> cur, ret |-> Ok(r.n), handler |-> <<>>]
    ELSE IF v.kind = "continue"
    THEN [current |-> cur + 1, ret |-> Ok(0), handler |-> << <<r.e, cur + 1>> >>]
    ELSE [current |-> cur, ret |-> Err(v.e), handler |-> << <<r.e, cur + 1>> >>]

\* ReadMatch with the Continue arm leaving the cursor where it is.
ReadMatchContinueStays(cur, r, v) ==
    IF r.kind = "ok" /\ r.n = 0
    THEN [current |-> cur + 1, ret |-> Ok(0), handler |-> <<>>]
    ELSE IF r.kind = "ok"
    THEN [current |-> cur, ret |-> Ok(r.n), handler |-> <<>>]
    ELSE IF v.kind = "continue"
    THEN [current |-> cur, ret |-> Ok(0), handler |-> << <<r.e, cur>> >>]
    ELSE [current |-> cur, ret |-> Err(v.e), handler |-> << <<r.e, cur>> >>]

\* ReadMatch advancing the cursor after every successful read, empty or not.
ReadMatchAlwaysAdvances(cur, r, v) ==
    IF r.kind = "ok"
    THEN [current |-> cur + 1, ret |-> Ok(r.n), handler |-> <<>>]
    ELSE IF v.kind = "continue"
    THEN [current |-> cur + 1, ret |-> Ok(0), handler |-> << <<r.e, cur>> >>]
    ELSE [current |-> cur, ret |-> Err(v.e), handler |-> << <<r.e, cur>> >>]

\* ReadMatch stepping back to the first source when one is exhausted.
ReadMatchRewinds(cur, r, v) ==
    IF r.kind = "ok" /\ r.n = 0
    THEN [current |-> IF cur > 0 THEN 0 ELSE cur + 1, ret |-> Ok(0), handler |-> <<>>]
    ELSE IF r.kind = "ok"
    THEN [current |-> cur, ret |-> Ok(r.n), handler |-> <<>>]
    ELSE IF v.kind = "continue"
    THEN [current |-> cur + 1, ret |-> Ok(0), handler |-> << <<r.e, cur>> >>]
    ELSE [current |-> cur, ret |-> Err(v.e), handler |-> << <<r.e, cur>> >>]

\* ReadMatch leaving the cursor on a source that returned 0 bytes.
ReadMatchZeroStays(cur, r, v) ==
    IF r.kind = "ok"
    THEN [current |-> cur, ret |-> Ok(r.n), handler |-> <<>>]
    ELSE IF v.kind = "continue"
    THEN [current |-> cur + 1, ret |-> Ok(0), handler |-> << <<r.e, cur>> >>]
    ELSE [current |-> cur, ret |-> Err(v.e), handler |-> << <<r.e, cur>> >>]

\* The match of ConcatInputSource::read on the underlying read's answer r, with
\* v the verdict the handler gives when it is asked.  `handler` holds the
\* arguments of the handler's invocations in this call.
ReadMatch(cur, r, v) ==
    IF r.kind = "ok" /\ r.n = 0
    THEN [current |-> cur + 1, ret |-> Ok(0), handler |-> <<>>]
    ELSE IF r.kind = "ok"
    THEN [current |-> cur, ret |-> Ok(r.n), handler |-> <<>>]
    ELSE IF v.kind = "continue"
    THEN [current |-> cur + 1, ret |-> Ok(0), handler |-> << <<r.e, cur>> >>]
    ELSE [current |-> cur, ret |-> Err(v.e), handler |-> << <<r.e, cur>> >>]

\* self.sources[self.current]: in bounds or a panic.
InBounds(srcs, cur) == cur < Len(srcs)

\* The verdicts the handler may give for the answer r of the underlying read.
VerdictsFor(r) == IF r.kind = "err" THEN ErrorAction ELSE {NoVerdict}

\* The lists of sources a caller may pass: any Vec<InputSource> of at most
\* MaxSources elements, Stdin any number of times.
SourceLists ==
    UNION {{srcs \in [1..n -> UNION {InputSource(i) : i \in 0..(MaxSources - 1)}] :
                \A i \in 1..n : srcs[i] \in InputSource(i - 1)}
           : n \in 0..MaxSources}

\* The observation of one call of ConcatInputSource::read: the cursor before it
\* (pre), whether its buffer was empty, the index of the source it read (src,
\* -1 for none), the indices of all underlying reads it made, in order (reads),
\* that source's answer (under), the handler's arguments and verdict, what the
\* call returned (ret), and the index at which the call before it ended in an
\* error (after, -1 for none).
NoCall == [pre |-> 0, emptyBuf |-> FALSE, src |-> -1, reads |-> <<>>, under |-> NoResult,
           verdict |-> NoVerdict, ret |-> NoResult, handler |-> <<>>, after |-> -1]

AfterOf(call) == IF call.ret.kind = "err" THEN call.pre ELSE -1

\* ------------------------------------------------------------------ writer
\* SlowScanConfig::default()
DefaultBaseDelay == 20
DefaultFullWidthDelay == 40
DefaultControlCharDelay == 0

SlowScanConfigDefault ==
    [base_delay |-> DefaultBaseDelay, full_width_delay |-> DefaultFullWidthDelay,
     control_char_delay |-> DefaultControlCharDelay, tail_delay |-> FALSE]

\* The configurations a caller may pass (durations in milliseconds): the
\* default delays, three delays that all differ and are not zero, and no delay
\* at all, each with and without the tail delay.
Configs ==
    {[c EXCEPT !.tail_delay = t] :
        c \in {SlowScanConfigDefault,
                [SlowScanConfigDefault EXCEPT !.base_delay = 3, !.full_width_delay = 5,
                                              !.control_char_delay = 7],
                [SlowScanConfigDefault EXCEPT !.base_delay = 0, !.full_width_delay = 0]},
        t \in BOOLEAN}

\* The characters of the inputs: U+000A (line feed), U+0041 (A), U+0301
\* (combining acute accent), U+4E2D (a CJK ideograph).
CharSet == {10, 65, 769, 20013}

\* Option<usize>
None == [some |-> FALSE, v |-> 0]
Some(w) == [some |-> TRUE, v |-> w]

\* unicode_width::UnicodeWidthChar::width_cjk on the ranges CharSet draws from:
\* no width for C0/C1 control characters, 0 for combining diacritical marks,
\* 2 for CJK unified ideographs, 1 for the rest of Basic Latin.
WidthCjk(ch) ==
    IF ch < 32 \/ (ch >= 127 /\ ch < 160) THEN None
    ELSE IF ch >= 768 /\ ch <= 879 THEN Some(0)
    ELSE IF ch >= 19968 /\ ch <= 40959 THEN Some(2)
    ELSE Some(1)

\* char::encode_utf8
EncodeUtf8(ch) ==
    IF ch < 128 THEN <<ch>>
    ELSE IF ch < 2048 THEN <<192 + (ch \div 64), 128 + (ch % 64)>>
    ELSE IF ch < 65536
    THEN <<224 + (ch \div 4096), 128 + ((ch \div 64) % 64), 128 + (ch % 64)>>
    ELSE <<240 + (ch \div 262144), 128 + ((ch \div 4096) % 64),
           128 + ((ch \div 64) % 64), 128 + (ch % 64)>>

\* DelayFor with the arms for None and Some(2) exchanged.
DelayForArmsSwapped(mode, ch, cfg) ==
    IF mode = "chunks" THEN cfg.base_delay
    ELSE IF WidthCjk(ch) = Some(2) THEN cfg.control_char_delay
    ELSE IF WidthCjk(ch) = None THEN cfg.full_width_delay
    ELSE cfg.base_delay

\* The delay slept after unit ch: base_delay in slow_scan_write_by_chunks, the
\* match on width_cjk in slow_scan_write_by_chars.
DelayFor(mode, ch, cfg) ==
    IF mode = "chunks" THEN cfg.base_delay
    ELSE IF WidthCjk(ch) = Some(2) THEN cfg.full_width_delay
    ELSE IF WidthCjk(ch) = None THEN cfg.control_char_delay
    ELSE cfg.base_delay

\* ShouldPause pausing only between units.
ShouldPauseNoTail(hasNext, tail) == hasNext

\* iter.peek().is_some() || config.tail_delay
ShouldPause(hasNext, tail) == hasNext \/ tail

\* Try ignoring the failure: the loop goes on.
TryIgnoresError(res, pc) == [pc |-> pc, ret |-> NoResult]

\* The `?` on write_all and flush: on Err the call returns it at once.
Try(res, pc) ==
    IF res = "ok" THEN [pc |-> pc, ret |-> NoResult]
    ELSE [pc |-> "done", ret |-> Err(res)]

\* The order of the loop body with the flush after the pause.
StepAfterLateFlush(pc) ==
    CASE pc = "next" -> "write"
      [] pc = "write" -> "peek"
      [] pc = "peek" -> "sleep"
      [] pc = "sleep" -> "flush"
      [] pc = "flush" -> "next"

\* StepAfter looking ahead before the item is written.
StepAfterPeekFirst(pc) ==
    CASE pc = "next" -> "peek"
      [] pc = "peek" -> "write"
      [] pc = "write" -> "flush"
      [] pc = "flush" -> "sleep"
      [] pc = "sleep" -> "next"

\* The order of the loop body: next, write_all, flush, peek, sleep.
StepAfter(pc) ==
    CASE pc = "next" -> "write"
      [] pc = "write" -> "flush"
      [] pc = "flush" -> "peek"
      [] pc = "peek" -> "sleep"
      [] pc = "sleep" -> "next"

Event(ev, i, x, res) == [ev |-> ev, i |-> i, x |-> x, res |-> res]

\* What a write_all or a flush of the sink can answer.
SinkResults == {"ok"} \cup Errs

\* A sink that answers at once and may fail; one that never fails and takes
\* one of Costs for the write and flush of an item.
Costs == {0, 1, 50}
InstantSink == [results |-> SinkResults, costs |-> {0}]
SlowSink == [results |-> {"ok"}, costs |-> Costs]

\* The characters the timed calls draw from: a control character, a letter, a
\* CJK ideograph.
ClockChars == {10, 65, 20013}

\* The clock at the start of a call: `let mut now = Instant::now()` is the
\* deadline, time 0; no pause has ended and nothing has been written.
ZeroClock == [now |-> 0, deadline |-> 0, ends |-> <<>>, costs |-> <<>>]

Max(a, b) == IF a > b THEN a ELSE b

\* SleepEnd sleeping the delay from now on in both builds.
SleepEndRelative(unst, now, deadline, d) == now + d

\* The time at which a pause of d starting at `now` ends: sleep(d) lasts d;
\* now += d; sleep_until(now) ends at the advanced deadline, or at once when
\* that is already past.
SleepEnd(unst, now, deadline, d) ==
    IF unst THEN Max(now, deadline + d) ELSE now + d

\* ---- InputSource::open and ConcatInputSource::from_uris
\* The URIs drawn from: the empty string, the dash, two paths.
Uris == {"", "-", "a", "b"}

\* What File::open answers: the file, or an OS error.
OsErrs == {"ENOENT", "EACCES"}
FsResults == {"ok"} \cup OsErrs

\* Option<io::Error>
NoCause == [some |-> FALSE, v |-> ""]
Cause(e) == [some |-> TRUE, v |-> e]

\* input::Error { kind, uri, source }
Error(kind, uri, source) == [kind |-> kind, uri |-> uri, source |-> source]
NoError == Error("none", "", NoCause)

\* InputSource::Stdin(io::stdin()), InputSource::File(file)
Stdin == [kind |-> "Stdin", path |-> ""]
File(path) == [kind |-> "File", path |-> path]
NoSource == [kind |-> "none", path |-> ""]

\* Result<InputSource, Error>
OpenOk(src) == [kind |-> "ok", src |-> src, error |-> NoError]
OpenErr(e) == [kind |-> "err", src |-> NoSource, error |-> e]

\* Open trying the file system first, for every URI.
OpenFileFirst(uri, fsres) ==
    IF fsres = "ok"
    THEN [res |-> OpenOk(File(uri)), fs |-> <<uri>>]
    ELSE IF uri = ""
    THEN [res |-> OpenErr(Error("UriIsEmpty", uri, NoCause)), fs |-> <<uri>>]
    ELSE IF uri = "-"
    THEN [res |-> OpenOk(Stdin), fs |-> <<uri>>]
    ELSE [res |-> OpenErr(Error("CannotOpenUri", uri, Cause(fsres))), fs |-> <<uri>>]

\* InputSource::open(uri), File::open answering fsres if it is asked: the
\* result and the paths handed to the file system.
Open(uri, fsres) ==
    IF uri = ""
    THEN [res |-> OpenErr(Error("UriIsEmpty", uri, NoCause)), fs |-> <<>>]
    ELSE IF uri = "-"
    THEN [res |-> OpenOk(Stdin), fs |-> <<>>]
    ELSE IF fsres = "ok"
    THEN [res |-> OpenOk(File(uri)), fs |-> <<uri>>]
    ELSE [res |-> OpenErr(Error("CannotOpenUri", uri, Cause(fsres))), fs |-> <<uri>>]

NoOpen == [uri |-> "", fsres |-> "none", res |-> OpenErr(NoError), fs |-> <<>>]

\* Result<ConcatInputSource, Error>
NoReader == [sources |-> <<>>, current |-> -1]
FromUrisOk(reader) == [kind |-> "ok", reader |-> reader, error |-> NoError]
FromUrisErr(e) == [kind |-> "err", reader |-> NoReader, error |-> e]
NoOpenResult == [kind |-> "none", reader |-> NoReader, error |-> NoError]

\* ---- SlowScanConfig arithmetic, durations in nanoseconds
\* Duration::from_millis
Millis(ms) == ms * 1000000

\* A configuration of the writer's model, with its durations in nanoseconds.
NanosConfig(c) ==
    [base_delay |-> Millis(c.base_delay), full_width_delay |-> Millis(c.full_width_delay),
     control_char_delay |-> Millis(c.control_char_delay), tail_delay |-> c.tail_delay]

\* The durations the plain setters are given, the expected totals and the
\* chunk counts the derived setter is given (those of the doc test among them).
SetDurations == {0, 5, Millis(40)}
BaseDelays == {0, Millis(10), Millis(30)}
Expectations == {0, 7, Millis(1000)}
ChunkCounts == (0..MaxCount) \cup {10, 11}

\* u32::saturating_sub
SaturatingSub(a, b) == IF a > b THEN a - b ELSE 0

\* Duration / u32, for a non-zero divisor: the quotient truncated to a nanosecond.
DurationDiv(d, n) == d \div n

\* DelayCount dropping one interval whether or not a tail delay is configured.
DelayCountIgnoresTail(tail, chunk_count) == SaturatingSub(chunk_count, 1)

\* let delay_count = if self.tail_delay { chunk_count } else { chunk_count.saturating_sub(1) }
DelayCount(tail, chunk_count) ==
    IF tail THEN chunk_count ELSE SaturatingSub(chunk_count, 1)

\* The derived setter setting the full-width delay to twice the base delay too.
SetBaseDelayFromExpectedTotalDurationAndWidth(c, expectation, chunk_count) ==
    LET delay_count == DelayCount(c.tail_delay, chunk_count)
        base == IF delay_count > 0 THEN DurationDiv(expectation, delay_count) ELSE 0
    IN  [c EXCEPT !.base_delay = base, !.full_width_delay = 2 * base]

\* SlowScanConfig::set_base_delay_from_expected_total_duration
SetBaseDelayFromExpectedTotalDuration(c, expectation, chunk_count) ==
    LET delay_count == DelayCount(c.tail_delay, chunk_count)
    IN  IF delay_count > 0
        THEN [c EXCEPT !.base_delay = DurationDiv(expectation, delay_count)]
        ELSE [c EXCEPT !.base_delay = 0]

NoSet == [op |-> "none", expectation |-> 0, chunk_count |-> 0,
          pre |-> NanosConfig(SlowScanConfigDefault)]

ReaderIdle ==
    /\ sources = <<>>
    /\ current = 0
    /\ last = NoCall
    /\ out = <<>>
    /\ verdicts = {}
    /\ failing = {}

WriterIdle ==
    /\ wmode = "none"
    /\ units = <<>>
    /\ config = SlowScanConfigDefault
    /\ wpc = "idle"
    /\ wi = 0
    /\ peeked = "no"
    /\ wlog = <<>>
    /\ wret = NoResult
    /\ unstable = FALSE
    /\ sink = InstantSink
    /\ wclock = ZeroClock

OpenIdle ==
    /\ uris = <<>>
    /\ opened = <<>>
    /\ oi = 0
    /\ oret = NoOpenResult
    /\ fslog = <<>>
    /\ lastOpen = NoOpen

ConfigIdle ==
    /\ scfg = NanosConfig(SlowScanConfigDefault)
    /\ cfgLast = NoSet

\* No loop is calling read.  Mode "read_to_end" is io::Read::read_to_end over
\* the chained reader, "lines" is BufReader::lines() over it, "forever" a
\* caller that goes on calling; zeros lists the cursor at each call that
\* returned Ok(0); pending tells whether the line being read holds bytes.
NoCaller == [mode |-> "none", stopped |-> FALSE, zeros |-> <<>>, pending |-> FALSE]
CallerIdle == caller = NoCaller

\* The program of src/main.rs, not running: where the main thread is (pc), its
\* arguments (files, hide_cursor), the number of file arguments taken (fi),
\* whether the standard input has been read to its end (stdin_eof), the
\* terminal's cursor and the events it was sent (term), the content of the
\* buffer of the standard output (kept), the bytes of failed writes the
\* terminal received with a later one (late), the names reported on the
\* diagnostic stream (diag), how main ended (status) and where it panicked (at),
\* where the Ctrl-C handler's thread is (handler), whether the runtime's
\* cleanup has run and what it did (cleanup), and how the process ended (end).
NoHost == [pc |-> "off", files |-> <<>>, hide_cursor |-> FALSE, fi |-> 0,
           stdin_eof |-> FALSE, cursor |-> "shown", term |-> <<>>, kept |-> <<>>,
           late |-> <<>>, diag |-> <<>>, status |-> "none", at |-> "none",
           handler |-> "idle", cleanup |-> "none", end |-> "running"]
HostIdle == host = NoHost

\* Whether the process the writer runs in is alive.
Alive == host.end = "running"

\* The runtime's cleanup has replaced the line-buffered standard output by an
\* unbuffered one.  A cleanup that found the output locked has replaced
\* nothing.
Unbuffered(h) == h.cleanup = "flushed"

\* The most interruptions of one write(1) call drawn.
MaxRetries == 1

\* What the terminal answers to the first write(1) calls of one write_all or
\* flush of the standard output, in order: interruptions, then success, an
\* error or one more interruption.  The calls after these succeed.
TermAnswers ==
    {a \in UNION {[1..n -> SinkResults] : n \in 1..(MaxRetries + 1)} :
        \A k \in 1..(Len(a) - 1) : a[k] = "EINTR"}

RECURSIVE Retry(_)
\* The outcome of a write(1) that is asked again while it answers Interrupted:
\* the first other answer.
Retry(answers) ==
    IF answers = <<>> THEN "ok"
    ELSE IF Head(answers) = "EINTR" THEN Retry(Tail(answers))
    ELSE Head(answers)

\* The cursor sequences hide_cursor and show_cursor write.
CursorSeq(op) == [ev |-> op, i |-> 0, x |-> <<>>, res |-> "-"]

RECURSIVE CursorAfter(_, _, _)
\* The cursor once the terminal has received the first k of items, in order.
CursorAfter(cursor, items, k) ==
    IF k = 0 THEN cursor
    ELSE IF items[k].ev = "hide" THEN "hidden"
    ELSE IF items[k].ev = "show" THEN "shown"
    ELSE CursorAfter(cursor, items, k - 1)

RECURSIVE FailedBytes(_, _)
\* The bytes, among the first k of items, of the units whose write has failed.
FailedBytes(items, k) ==
    IF k = 0 THEN <<>>
    ELSE FailedBytes(items, k - 1)
         \o (IF items[k].ev = "write" /\ items[k].res = "failed" THEN items[k].x ELSE <<>>)

HasLineFeed(item) == \E j \in 1..Len(item.x) : item.x[j] = 10

\* The buffer's last byte is a line feed: a line whose flush failed is left in
\* it.
EndsLine(kept) == kept # <<>> /\ HasLineFeed(kept[Len(kept)])

\* Whether write_all on the standard output makes a write(1) when it is handed
\* `item`: for a line, for anything once the output is unbuffered, and to
\* flush a completed line left in the buffer.  Whatever else it is given it
\* only appends to the buffer.
WritesNow(h, item) == Unbuffered(h) \/ HasLineFeed(item) \/ EndsLine(h.kept)

\* Whether `item` goes to the terminal past the buffer: a line when the buffer
\* is empty, anything once the output is unbuffered.
WritesThrough(h, item) == Unbuffered(h) \/ (HasLineFeed(item) /\ h.kept = <<>>)

\* One write(1) of the buffer's content succeeds: the terminal receives it.
Deliver(h) ==
    [h EXCEPT !.cursor = CursorAfter(@, h.kept, Len(h.kept)),
              !.late = @ \o FailedBytes(h.kept, Len(h.kept)),
              !.kept = <<>>]

\* The first locked section of a Term write: io::stdout().write_all(item), the
\* terminal answering `answers` to the write(1) calls it makes.  The result is
\* the host after it and what write_all returned.
StdoutWriteAll(h, item, answers) ==
    LET res == Retry(answers)
    IN  IF WritesThrough(h, item)
        THEN [h |-> IF res = "ok"
                    THEN [h EXCEPT !.cursor = CursorAfter(@, <<item>>, 1)]
                    ELSE h,
              ret |-> res]
        ELSE IF HasLineFeed(item)
        THEN LET h1 == [h EXCEPT !.kept = Append(@, item)]
             IN  [h |-> IF res = "ok" THEN Deliver(h1) ELSE h1, ret |-> res]
        ELSE IF EndsLine(h.kept)
        THEN [h |-> IF res = "ok"
                    THEN [Deliver(h) EXCEPT !.kept = <<item>>]
                    ELSE h,
              ret |-> res]
        ELSE [h |-> [h EXCEPT !.kept = Append(@, item)], ret |-> "ok"]

\* The second locked section of a Term write: io::stdout().flush().
StdoutFlush(h, answers) ==
    LET res == Retry(answers)
    IN  IF h.kept = <<>> THEN [h |-> h, ret |-> "ok"]
        ELSE [h |-> IF res = "ok" THEN Deliver(h) ELSE h, ret |-> res]

\* The write of a unit has failed: what is left of it in the buffer is no
\* longer awaited by slow_scan_write.
MarkFailed(h) ==
    [h EXCEPT !.kept = [k \in 1..Len(h.kept) |->
                           IF h.kept[k].ev = "write"
                           THEN [h.kept[k] EXCEPT !.res = "failed"]
                           ELSE h.kept[k]]]

\* What the terminal may answer in each section: it is asked only when a
\* write(1) is made.
WriteAllAnswers(h, item) == IF WritesNow(h, item) THEN TermAnswers ELSE {<<"ok">>}
FlushAnswers(h) == IF h.kept = <<>> THEN {<<"ok">>} ELSE TermAnswers

\* The runtime's cleanup, run once by the first thread that leaves (main
\* returning or panicking, the handler calling exit): it tries the lock of the
\* standard output and, when it gets it, replaces the line-buffered output by
\* an unbuffered one; the buffer dropped is written out and what is not
\* written then is lost.  When the lock is held by the other thread nothing is
\* written and the output stays line-buffered.
RuntimeCleanup(h, held, answers) ==
    IF h.cleanup # "none" THEN h
    ELSE IF held THEN [h EXCEPT !.cleanup = "skipped"]
    ELSE IF h.kept = <<>> THEN [h EXCEPT !.cleanup = "flushed"]
    ELSE [(IF Retry(answers) = "ok" THEN Deliver(h) ELSE [h EXCEPT !.kept = <<>>])
             EXCEPT !.cleanup = "flushed"]

\* What the terminal may answer to the cleanup: it is asked only when the
\* cleanup has a buffer to write out.
CleanupAnswers(h, held) ==
    IF h.cleanup # "none" \/ held \/ h.kept = <<>> THEN {<<"ok">>} ELSE TermAnswers

\* ---- src/output.rs
\* [0; 4] with the encoding of ch written at its start.
Buf4(ch) == [j \in 1..4 |-> IF j <= Len(EncodeUtf8(ch)) THEN EncodeUtf8(ch)[j] ELSE 0]

\* The bytes handed to write_all for the item ch: current.as_ref() in
\* slow_scan_write, the whole 4-byte buffer in slow_scan_write_use_chars.
OutputBytes(mode, ch) == IF mode = "use_chars" THEN Buf4(ch) ELSE EncodeUtf8(ch)

\* Option<Duration>: the sleep made after the item ch when another follows.
NoSleep == [some |-> FALSE, v |-> 0]
SleepFor(d) == [some |-> TRUE, v |-> d]

\* slow_scan_write sleeps `delay`; slow_scan_write_use_chars sleeps twice
\* halt_width_delay after a character of width 2, not at all after one of no
\* width, halt_width_delay after any other.
OutputDelay(mode, ch, delay) ==
    IF mode = "write" THEN SleepFor(delay)
    ELSE IF WidthCjk(ch) = Some(2) THEN SleepFor(delay * 2)
    ELSE IF WidthCjk(ch) = None THEN NoSleep
    ELSE SleepFor(delay)

\* OutputShouldSleep sleeping after the last item too.
OutputShouldSleepAlways(nextIsSome) == TRUE

\* if next.is_some()
OutputShouldSleep(nextIsSome) == nextIsSome

\* No call has been kept for comparison.
NoRef == [set |-> FALSE, io |-> <<>>, ret |-> NoResult]
RefIdle == wref = NoRef

\* ------------------------------------------------------ reader: actions
InitReader ==
    /\ CallerIdle
    /\ RefIdle
    /\ HostIdle
    /\ WriterIdle
    /\ OpenIdle
    /\ ConfigIdle
    /\ \E srcs \in SourceLists :
            /\ sources = ConcatNew(srcs).sources
            /\ current = ConcatNew(srcs).current
    /\ last = NoCall
    /\ out = <<>>
    /\ verdicts = {}
    /\ failing = {}

\* ConcatInputSource::read on a buffer of buflen bytes: the index is out of
\* bounds and the call panics, leaving the reader as it was.
ReadPanics ==
    /\ ~InBounds(sources, current)
    /\ \E buflen \in 0..MaxLen :
         last' = [pre |-> current, emptyBuf |-> (buflen = 0), src |-> -1, reads |-> <<>>,
                  under |-> NoResult, verdict |-> NoVerdict, ret |-> Panic,
                  handler |-> <<>>, after |-> AfterOf(last)]
    /\ UNCHANGED <<sources, current, out, verdicts, failing, wvars, ovars, cvars, xvars>>

\* The body of ConcatInputSource::read on a buffer of buflen bytes, the source
\* at the cursor answering r and the handler, when asked, v.
Delegate(buflen, r, v) ==
    LET src == sources[current + 1]
        org == Origin(sources, current + 1)
        m == ReadMatch(current, r, v)
    IN  /\ sources' = [sources EXCEPT ![current + 1] = Advance(src, r)]
        /\ current' = m.current
        /\ last' = [pre |-> current, emptyBuf |-> (buflen = 0), src |-> current,
                    reads |-> <<current>>, under |-> r,
                    verdict |-> v, ret |-> m.ret, handler |-> m.handler,
                    after |-> AfterOf(last)]
        /\ out' = IF m.ret.kind = "ok"
                  THEN out \o [j \in 1..m.ret.n |-> <<current, Taken(org, r)[j]>>]
                  ELSE out
        /\ verdicts' = IF v.kind = "none" THEN verdicts ELSE verdicts \cup {v.kind}
        /\ failing' = IF r.kind = "err"
                      THEN failing \cup {current}
                      ELSE failing \ {current}

\* The body of a read that, finding the source at the cursor exhausted, goes on
\* to the next source in the same call and returns what that one gives.
DelegateAhead(buflen, r2) ==
    LET nxt == sources[current + 2]
        org == Origin(sources, current + 2)
    IN  /\ sources' = [sources EXCEPT ![current + 2] = Advance(nxt, r2)]
        /\ current' = current + 1
        /\ last' = [pre |-> current, emptyBuf |-> (buflen = 0), src |-> current + 1,
                    reads |-> <<current, current + 1>>, under |-> r2,
                    verdict |-> NoVerdict, ret |-> Ok(r2.n), handler |-> <<>>,
                    after |-> AfterOf(last)]
        /\ out' = out \o [j \in 1..r2.n |-> <<current + 1, Taken(org, r2)[j]>>]
        /\ UNCHANGED <<verdicts, failing>>

\* ReadDelegates reading ahead: on Ok(0) it reads the next source at once.
ReadDelegatesReadsAhead ==
    /\ InBounds(sources, current)
    /\ \E buflen \in 0..MaxLen :
         \E r \in InputSourceRead(Origin(sources, current + 1), buflen) :
            \E v \in VerdictsFor(r) :
               IF r = Ok(0) /\ InBounds(sources, current + 1)
               THEN \E r2 \in {x \in InputSourceRead(Origin(sources, current + 2), buflen) :
                                    x.kind = "ok"} :
                        DelegateAhead(buflen, r2)
               ELSE Delegate(buflen, r, v)
    /\ UNCHANGED <<wvars, ovars, cvars, xvars>>

\* ConcatInputSource::read on a buffer of buflen bytes, the source at the
\* cursor answering r and the handler, when asked, v.
ReadDelegates ==
    /\ InBounds(sources, current)
    /\ \E buflen \in 0..MaxLen :
         \E r \in InputSourceRead(Origin(sources, current + 1), buflen) :
            \E v \in VerdictsFor(r) :
               Delegate(buflen, r, v)
    /\ UNCHANGED <<wvars, ovars, cvars, xvars>>

Read == ReadPanics \/ ReadDelegates

NextReader == Read

SpecReader == InitReader /\ [][NextReader]_vars

\* ------------------------------------------------- callers of read: actions
\* Files of text: the last byte of each is a line feed.
TextFile(i) ==
    {[kind |-> "File", data |-> [FileData(i, n) EXCEPT ![n] = 10], pos |-> 0] : n \in 1..MaxLen}

\* The lists of sources a consumer is run on: those of SourceLists, and files
\* of text among them.
ConsumerLists ==
    UNION {{srcs \in [1..n -> UNION {InputSource(i) \cup TextFile(i) : i \in 0..(MaxSources - 1)}] :
                \A i \in 1..n : srcs[i] \in InputSource(i - 1) \cup TextFile(i - 1)}
           : n \in 0..MaxSources}

\* A consumer that follows the read-until-0 contract on the chained reader:
\* read_to_end, or a buffered line reader wrapped around it whose lines() is
\* asked for lines until it yields None, an Err item being taken for a line as
\* create_iterator of src/main.rs takes it.  Its buffer is never empty.
InitConsumer ==
    /\ WriterIdle
    /\ OpenIdle
    /\ ConfigIdle
    /\ RefIdle
    /\ HostIdle
    /\ \E srcs \in ConsumerLists :
            /\ sources = ConcatNew(srcs).sources
            /\ current = ConcatNew(srcs).current
    /\ last = NoCall
    /\ out = <<>>
    /\ verdicts = {}
    /\ failing = {}
    /\ \E mode \in {"read_to_end", "lines"} :
         caller = [mode |-> mode, stopped |-> FALSE, zeros |-> <<>>, pending |-> FALSE]

\* Whether a call's result ends the consumer's loop.  An interrupted read is
\* called again.  Any other error ends read_to_end, which returns it; lines()
\* yields it as an item and reads again when it is asked for the next line.
\* A zero-length result ends read_to_end; it ends lines() when the line being
\* read is empty, and ends only that line when it holds bytes.
EndsLoop(mode, pending, ret) ==
    IF ret.kind = "err" THEN mode = "read_to_end" /\ ret.e # "EINTR"
    ELSE IF ret.kind = "ok" /\ ret.n = 0 THEN mode = "read_to_end" \/ ~pending
    ELSE ret.kind # "ok"

\* Whether the line being read holds bytes after a call that returned ret with
\* the bytes `bytes`: a line feed ends a line, a zero-length result ends the
\* line in progress, an error other than an interruption drops it.
Pending(mode, pending, ret, bytes) ==
    IF mode # "lines" THEN FALSE
    ELSE IF ret.kind = "err" THEN pending /\ ret.e = "EINTR"
    ELSE IF ret.kind # "ok" THEN pending
    ELSE IF ret.n = 0 THEN FALSE
    ELSE bytes[ret.n] # 10

\* One turn of the consumer's loop: a read into a non-empty buffer.
ConsumerRead ==
    /\ caller.mode \in {"read_to_end", "lines"}
    /\ ~caller.stopped
    /\ InBounds(sources, current)
    /\ \E buflen \in 1..MaxLen :
         \E r \in InputSourceRead(Origin(sources, current + 1), buflen) :
            \E v \in VerdictsFor(r) :
               LET ret == ReadMatch(current, r, v).ret
               IN  /\ Delegate(buflen, r, v)
                   /\ caller' = [caller EXCEPT
                                    !.stopped = EndsLoop(caller.mode, caller.pending, ret),
                                    !.zeros = IF ret = Ok(0) THEN Append(@, current) ELSE @,
                                    !.pending = Pending(caller.mode, caller.pending, ret,
                                                        Taken(Origin(sources, current + 1), r))]
    /\ UNCHANGED <<wvars, ovars, cvars, wref, host>>

\* The consumer's read with the cursor past the last source: the index is out
\* of bounds and the call panics.
ConsumerPanics ==
    /\ caller.mode \in {"read_to_end", "lines"}
    /\ ~caller.stopped
    /\ ~InBounds(sources, current)
    /\ \E buflen \in 1..MaxLen :
         last' = [pre |-> current, emptyBuf |-> FALSE, src |-> -1, reads |-> <<>>,
                  under |-> NoResult, verdict |-> NoVerdict, ret |-> Panic,
                  handler |-> <<>>, after |-> AfterOf(last)]
    /\ caller' = [caller EXCEPT !.stopped = TRUE]
    /\ UNCHANGED <<sources, current, out, verdicts, failing, wvars, ovars, cvars, wref, host>>

NextConsumer == ConsumerRead \/ ConsumerPanics

SpecConsumer == InitConsumer /\ [][NextConsumer]_vars

\* A caller that keeps calling read, with any buffer, until the cursor is past
\* the last source; the handler answers Continue to every error.
InitCaller ==
    /\ WriterIdle
    /\ OpenIdle
    /\ ConfigIdle
    /\ RefIdle
    /\ HostIdle
    /\ \E srcs \in SourceLists :
            /\ sources = ConcatNew(srcs).sources
            /\ current = ConcatNew(srcs).current
    /\ last = NoCall
    /\ out = <<>>
    /\ verdicts = {}
    /\ failing = {}
    /\ caller = [mode |-> "forever", stopped |-> FALSE, zeros |-> <<>>, pending |-> FALSE]

\* The verdict of a handler that always answers Continue.
AlwaysContinue(r) == IF r.kind = "err" THEN Continue ELSE NoVerdict

\* One call of the caller's loop.
CallerRead ==
    /\ caller.mode = "forever"
    /\ InBounds(sources, current)
    /\ \E buflen \in 0..MaxLen :
         \E r \in InputSourceRead(Origin(sources, current + 1), buflen) :
            /\ Delegate(buflen, r, AlwaysContinue(r))
            /\ caller' = [caller EXCEPT
                             !.zeros = IF ReadMatch(current, r, AlwaysContinue(r)).ret = Ok(0)
                                       THEN Append(@, current) ELSE @]
    /\ UNCHANGED <<wvars, ovars, cvars, wref, host>>

NextCaller == CallerRead

SpecCaller == InitCaller /\ [][NextCaller]_vars /\ WF_vars(CallerRead)

\* ------------------------------------------------------ writer: actions
\* A call of slow_scan_write_by_chunks or slow_scan_write_by_chars, after
\* `iter.peekable()`.
InitWriter ==
    /\ CallerIdle
    /\ RefIdle
    /\ HostIdle
    /\ ReaderIdle
    /\ OpenIdle
    /\ ConfigIdle
    /\ unstable \in BOOLEAN
    /\ sink = InstantSink
    /\ wclock = ZeroClock
    /\ wmode \in {"chunks", "chars"}
    /\ units \in UNION {[1..n -> CharSet] : n \in 0..MaxUnits}
    /\ config \in Configs
    /\ wpc = "next"
    /\ wi = 0
    /\ peeked = "no"
    /\ wlog = <<>>
    /\ wret = NoResult

\* HasNext counting one item more than the iterator holds.
HasNextInclusive == wi <= Len(units)

\* Whether the iterator holds an item after the wi already yielded.
HasNext == wi < Len(units)

\* The pull of the underlying iterator, made unless the lookahead slot is full.
Pull == IF peeked = "no" THEN <<Event("pull", wi + 1, HasNext, "ok")>> ELSE <<>>

\* while let Some(it) = iter.next()
WNext ==
    /\ wpc = "next"
    /\ wlog' = wlog \o Pull
    /\ peeked' = "no"
    /\ IF HasNext
       THEN /\ wi' = wi + 1
            /\ wpc' = StepAfter("next")
            /\ wret' = wret
       ELSE /\ wi' = wi
            /\ wpc' = "done"
            /\ wret' = Ok(0)
    /\ UNCHANGED <<wmode, units, config, wenv, wclock, rvars, ovars, cvars, xvars>>

\* self.write_all(..)?
WWrite ==
    /\ wpc = "write"
    /\ \E res \in sink.results :
         /\ wlog' = Append(wlog, Event("write", wi, EncodeUtf8(units[wi]), res))
         /\ wpc' = Try(res, StepAfter("write")).pc
         /\ wret' = Try(res, StepAfter("write")).ret
    /\ UNCHANGED <<wmode, units, config, wi, peeked, wenv, wclock, rvars, ovars, cvars, xvars>>

\* self.flush()?  The time the write and the flush of the item took passes.
WFlush ==
    /\ wpc = "flush"
    /\ \E res \in sink.results :
         /\ wlog' = Append(wlog, Event("flush", wi, <<>>, res))
         /\ wpc' = Try(res, StepAfter("flush")).pc
         /\ wret' = Try(res, StepAfter("flush")).ret
    /\ \E cost \in sink.costs :
         wclock' = [wclock EXCEPT !.now = @ + cost, !.costs = Append(@, cost)]
    /\ UNCHANGED <<wmode, units, config, wi, peeked, wenv, rvars, ovars, cvars, xvars>>

\* if iter.peek().is_some() || config.tail_delay
WPeek ==
    /\ wpc = "peek"
    /\ wlog' = wlog \o Pull
    /\ peeked' = IF HasNext THEN "some" ELSE "none"
    /\ wpc' = IF ShouldPause(HasNext, config.tail_delay)
              THEN StepAfter("peek")
              ELSE StepAfter("sleep")
    /\ UNCHANGED <<wmode, units, config, wi, wret, wenv, wclock, rvars, ovars, cvars, xvars>>

\* sleep(delay), or with feature "unstable": now += delay; sleep_until(now)
WSleep ==
    /\ wpc = "sleep"
    /\ wlog' = Append(wlog, Event("sleep", wi, DelayFor(wmode, units[wi], config), "ok"))
    /\ wpc' = StepAfter("sleep")
    /\ LET d == DelayFor(wmode, units[wi], config)
           end == SleepEnd(unstable, wclock.now, wclock.deadline, d)
       IN  wclock' = [wclock EXCEPT !.now = end,
                                    !.deadline = IF unstable THEN @ + d ELSE @,
                                    !.ends = Append(@, end)]
    /\ UNCHANGED <<wmode, units, config, wi, peeked, wret, wenv, rvars, ovars, cvars, xvars>>

NextWriter == WNext \/ WWrite \/ WFlush \/ WPeek \/ WSleep

SpecWriter == InitWriter /\ [][NextWriter]_vars

\* A call of either function on a sink that never fails and takes time.
InitClock ==
    /\ CallerIdle
    /\ RefIdle
    /\ HostIdle
    /\ ReaderIdle
    /\ OpenIdle
    /\ ConfigIdle
    /\ unstable \in BOOLEAN
    /\ sink = SlowSink
    /\ wclock = ZeroClock
    /\ wmode \in {"chunks", "chars"}
    /\ units \in UNION {[1..n -> ClockChars] : n \in 0..MaxUnits}
    /\ config \in Configs
    /\ wpc = "next"
    /\ wi = 0
    /\ peeked = "no"
    /\ wlog = <<>>
    /\ wret = NoResult

SpecClock == InitClock /\ [][NextWriter]_vars

\* --------------------------------------------------- output.rs: actions
\* The write_all / flush events of a log, in order.
SinkOps(log) == SelectSeq(log, LAMBDA x : x.ev = "write" \/ x.ev = "flush")

\* What the sink may answer to its next operation: anything it can, or, when a
\* call is kept for comparison, what it answered to the same operation of that
\* call.
SinkAnswers ==
    IF wref.set
    THEN LET k == Len(SinkOps(wlog)) + 1
         IN  IF k <= Len(SinkOps(wref.io)) THEN {SinkOps(wref.io)[k].res} ELSE {"ok"}
    ELSE sink.results

\* A call of slow_scan_write or slow_scan_write_use_chars; `delay` is
\* config.base_delay.
InitOutput ==
    /\ CallerIdle
    /\ RefIdle
    /\ HostIdle
    /\ ReaderIdle
    /\ OpenIdle
    /\ ConfigIdle
    /\ unstable = FALSE
    /\ sink = InstantSink
    /\ wclock = ZeroClock
    /\ wmode \in {"write", "use_chars"}
    /\ units \in UNION {[1..n -> CharSet] : n \in 0..MaxUnits}
    /\ config \in {c \in Configs : ~c.tail_delay}
    /\ wpc = "o_first"
    /\ wi = 0
    /\ peeked = "no"
    /\ wlog = <<>>
    /\ wret = NoResult

\* let mut current = match iter.next() { Some(c) => c, None => return Ok(()) }
OFirst ==
    /\ wpc = "o_first"
    /\ Alive
    /\ wlog' = Append(wlog, Event("pull", wi + 1, HasNext, "ok"))
    /\ IF HasNext
       THEN /\ wi' = wi + 1
            /\ wpc' = "o_next"
            /\ wret' = wret
       ELSE /\ wi' = wi
            /\ wpc' = "done"
            /\ wret' = Ok(0)
    /\ UNCHANGED <<wmode, units, config, peeked, wenv, wclock, rvars, ovars, cvars, xvars>>

\* let next = iter.next()
ONext ==
    /\ wpc = "o_next"
    /\ Alive
    /\ wlog' = Append(wlog, Event("pull", wi + 1, HasNext, "ok"))
    /\ peeked' = IF HasNext THEN "some" ELSE "none"
    /\ wpc' = "o_write"
    /\ UNCHANGED <<wmode, units, config, wi, wret, wenv, wclock, rvars, ovars, cvars, xvars>>

\* self.write_all(..)?
OWrite ==
    /\ wpc = "o_write"
    /\ Alive
    /\ \E res \in SinkAnswers :
         /\ wlog' = Append(wlog, Event("write", wi, OutputBytes(wmode, units[wi]), res))
         /\ wpc' = Try(res, "o_flush").pc
         /\ wret' = Try(res, "o_flush").ret
    /\ UNCHANGED <<wmode, units, config, wi, peeked, wenv, wclock, rvars, ovars, cvars, xvars>>

\* self.flush()?
OFlush ==
    /\ wpc = "o_flush"
    /\ Alive
    /\ \E res \in SinkAnswers :
         /\ wlog' = Append(wlog, Event("flush", wi, <<>>, res))
         /\ wpc' = Try(res, "o_pause").pc
         /\ wret' = Try(res, "o_pause").ret
    /\ \E cost \in sink.costs :
         wclock' = [wclock EXCEPT !.now = @ + cost, !.costs = Append(@, cost)]
    /\ UNCHANGED <<wmode, units, config, wi, peeked, wenv, rvars, ovars, cvars, xvars>>

\* if next.is_some() { thread::sleep(..) }; current = match next { Some(c) => c,
\* None => return Ok(()) }
OPause ==
    /\ wpc = "o_pause"
    /\ Alive
    /\ LET d == OutputDelay(wmode, units[wi], config.base_delay)
           sleeps == OutputShouldSleep(peeked = "some") /\ d.some
           end == SleepEnd(FALSE, wclock.now, wclock.deadline, d.v)
       IN  /\ wlog' = IF sleeps THEN Append(wlog, Event("sleep", wi, d.v, "ok")) ELSE wlog
           /\ wclock' = IF sleeps
                        THEN [wclock EXCEPT !.now = end, !.ends = Append(@, end)]
                        ELSE wclock
    /\ IF peeked = "some"
       THEN /\ wi' = wi + 1
            /\ wpc' = "o_next"
            /\ wret' = wret
       ELSE /\ wi' = wi
            /\ wpc' = "done"
            /\ wret' = Ok(0)
    /\ peeked' = "no"
    /\ UNCHANGED <<wmode, units, config, wenv, rvars, ovars, cvars, xvars>>

NextOutput == OFirst \/ ONext \/ OWrite \/ OFlush \/ OPause

SpecOutput == InitOutput /\ [][NextOutput]_vars

\* A call of slow_scan_write_by_chunks with tail_delay = false, to be followed
\* by a call of slow_scan_write on the same items, delay and sink.
InitEquiv ==
    /\ CallerIdle
    /\ RefIdle
    /\ HostIdle
    /\ ReaderIdle
    /\ OpenIdle
    /\ ConfigIdle
    /\ unstable \in BOOLEAN
    /\ sink = InstantSink
    /\ wclock = ZeroClock
    /\ wmode = "chunks"
    /\ units \in UNION {[1..n -> CharSet] : n \in 0..MaxUnits}
    /\ config \in {c \in Configs : ~c.tail_delay}
    /\ wpc = "next"
    /\ wi = 0
    /\ peeked = "no"
    /\ wlog = <<>>
    /\ wret = NoResult

\* The call of slow_scan_write_by_chunks has returned: its events and result
\* are kept, and slow_scan_write is called on the same items with
\* delay = base_delay, the sink answering as it did.
Rerun ==
    /\ wmode = "chunks"
    /\ wpc = "done"
    /\ ~wref.set
    /\ wref' = [set |-> TRUE, io |-> SelectSeq(wlog, LAMBDA x : x.ev # "pull"), ret |-> wret]
    /\ wmode' = "write"
    /\ wpc' = "o_first"
    /\ wi' = 0
    /\ peeked' = "no"
    /\ wlog' = <<>>
    /\ wret' = NoResult
    /\ wclock' = ZeroClock
    /\ UNCHANGED <<units, config, wenv, rvars, ovars, cvars, caller, host>>

NextEquiv == NextWriter \/ Rerun \/ NextOutput

SpecEquiv == InitEquiv /\ [][NextEquiv]_vars

\* ----------------------------------------------------- main.rs: actions
\* The file arguments drawn from: a path that does not open, an empty file, a
\* file holding the line "A", the standard input holding an empty line.  The
\* units are the characters create_iterator yields, each line ending in "\n".
HostFiles ==
    {[name |-> "a", opens |-> FALSE, units |-> <<>>],
     [name |-> "e", opens |-> TRUE, units |-> <<>>],
     [name |-> "b", opens |-> TRUE, units |-> <<65, 10>>],
     [name |-> "-", opens |-> TRUE, units |-> <<10>>]}

\* The units the iterator over a file argument yields: those of the file, read
\* from its start; those left on the standard input for "-".
UnitsOf(file, stdin_eof) == IF file.name = "-" /\ stdin_eof THEN <<>> ELSE file.units

\* main after setup_ctrlc_handle has installed the handler; args.files holds at
\* least one name ("-" when none is given), args.time is the default, 20 ms.
InitHost ==
    /\ CallerIdle
    /\ RefIdle
    /\ ReaderIdle
    /\ WriterIdle
    /\ OpenIdle
    /\ ConfigIdle
    /\ \E fs \in UNION {[1..n -> HostFiles] : n \in 1..MaxFiles} :
         \E hc \in BOOLEAN :
            host = [NoHost EXCEPT !.pc = "hide", !.files = fs, !.hide_cursor = hc]

\* if args.hide_cursor { stdout.hide_cursor().unwrap() }: the sequence is
\* handed to the standard output
HideCursor ==
    /\ host.pc = "hide"
    /\ Alive
    /\ IF host.hide_cursor
       THEN \E answers \in WriteAllAnswers(host, CursorSeq("hide")) :
               LET w == StdoutWriteAll(host, CursorSeq("hide"), answers)
               IN  host' = [w.h EXCEPT
                               !.pc = IF w.ret = "ok" THEN "hide_flush" ELSE "return",
                               !.status = IF w.ret = "ok" THEN @ ELSE "panic",
                               !.at = IF w.ret = "ok" THEN @ ELSE "hide_cursor"]
       ELSE host' = [host EXCEPT !.pc = "loop"]
    /\ UNCHANGED <<rvars, wvars, ovars, cvars, caller, wref>>

\* hide_cursor flushes the standard output; .unwrap() panics when it fails
HideCursorFlush ==
    /\ host.pc = "hide_flush"
    /\ Alive
    /\ \E answers \in FlushAnswers(host) :
         LET w == StdoutFlush(host, answers)
         IN  host' = [w.h EXCEPT
                         !.pc = IF w.ret = "ok" THEN "loop" ELSE "return",
                         !.status = IF w.ret = "ok" THEN @ ELSE "panic",
                         !.at = IF w.ret = "ok" THEN @ ELSE "hide_cursor"]
    /\ UNCHANGED <<rvars, wvars, ovars, cvars, caller, wref>>

\* HostOpen leaving the loop at the first file that fails to open.
HostOpenBreaks ==
    /\ host.pc = "loop"
    /\ Alive
    /\ host.fi < Len(host.files)
    /\ LET file == host.files[host.fi + 1]
       IN  IF file.opens
           THEN /\ host' = [host EXCEPT !.pc = "call", !.fi = @ + 1,
                                        !.stdin_eof = @ \/ file.name = "-"]
                /\ wmode' = "write"
                /\ units' = UnitsOf(file, host.stdin_eof)
                /\ wpc' = "o_first"
                /\ wi' = 0
                /\ peeked' = "no"
                /\ wlog' = <<>>
                /\ wret' = NoResult
           ELSE /\ host' = [host EXCEPT !.fi = Len(host.files), !.diag = Append(@, file.name)]
                /\ UNCHANGED <<wmode, units, wpc, wi, peeked, wlog, wret>>
    /\ UNCHANGED <<config, wenv, wclock, rvars, ovars, cvars, caller, wref>>

\* for name in args.files: create_reader(name); on Err the name is reported on
\* stderr and the loop continues, on Ok slow_scan_write is called on the
\* file's iterator, which reads the file, or the standard input, to its end.
HostOpen ==
    /\ host.pc = "loop"
    /\ Alive
    /\ host.fi < Len(host.files)
    /\ LET file == host.files[host.fi + 1]
       IN  IF file.opens
           THEN /\ host' = [host EXCEPT !.pc = "call", !.fi = @ + 1,
                                        !.stdin_eof = @ \/ file.name = "-"]
                /\ wmode' = "write"
                /\ units' = UnitsOf(file, host.stdin_eof)
                /\ wpc' = "o_first"
                /\ wi' = 0
                /\ peeked' = "no"
                /\ wlog' = <<>>
                /\ wret' = NoResult
           ELSE /\ host' = [host EXCEPT !.fi = @ + 1, !.diag = Append(@, file.name)]
                /\ UNCHANGED <<wmode, units, wpc, wi, peeked, wlog, wret>>
    /\ UNCHANGED <<config, wenv, wclock, rvars, ovars, cvars, caller, wref>>

\* self.write_all(..)? of slow_scan_write on the Term: the unit is handed to
\* the standard output; a failure is returned at once.
TermWrite ==
    /\ host.pc = "call"
    /\ wpc = "o_write"
    /\ Alive
    /\ LET item == Event("write", wi, OutputBytes(wmode, units[wi]), "-")
       IN  \E answers \in WriteAllAnswers(host, item) :
              LET w == StdoutWriteAll(host, item, answers)
              IN  IF w.ret = "ok"
                  THEN /\ host' = w.h
                       /\ wpc' = "o_write_flush"
                       /\ UNCHANGED <<wlog, wret>>
                  ELSE /\ host' = MarkFailed(w.h)
                       /\ wlog' = Append(wlog, [item EXCEPT !.res = w.ret])
                       /\ wpc' = Try(w.ret, "o_flush").pc
                       /\ wret' = Try(w.ret, "o_flush").ret
    /\ UNCHANGED <<wmode, units, config, wi, peeked, wenv, wclock, rvars, ovars, cvars,
                   caller, wref>>

\* The Term's write flushes the standard output and returns.
TermWriteFlush ==
    /\ host.pc = "call"
    /\ wpc = "o_write_flush"
    /\ Alive
    /\ LET item == Event("write", wi, OutputBytes(wmode, units[wi]), "-")
       IN  \E answers \in FlushAnswers(host) :
              LET w == StdoutFlush(host, answers)
              IN  /\ host' = IF w.ret = "ok" THEN w.h ELSE MarkFailed(w.h)
                  /\ wlog' = Append(wlog, [item EXCEPT !.res = w.ret])
                  /\ wpc' = Try(w.ret, "o_flush").pc
                  /\ wret' = Try(w.ret, "o_flush").ret
    /\ UNCHANGED <<wmode, units, config, wi, peeked, wenv, wclock, rvars, ovars, cvars,
                   caller, wref>>

\* self.flush()? of slow_scan_write on the Term, which holds no buffer of its
\* own: nothing is written and the call succeeds.
TermFlush ==
    /\ host.pc = "call"
    /\ wpc = "o_flush"
    /\ Alive
    /\ wlog' = Append(wlog, Event("flush", wi, <<>>, "ok"))
    /\ wpc' = Try("ok", "o_pause").pc
    /\ wret' = Try("ok", "o_pause").ret
    /\ UNCHANGED <<wmode, units, config, wi, peeked, wenv, wclock, rvars, ovars, cvars, xvars>>

\* slow_scan_write has returned: .unwrap_or_else(|it| panic!(..))
HostReturn ==
    /\ host.pc = "call"
    /\ Alive
    /\ wpc = "done"
    /\ host' = [host EXCEPT
                   !.term = @ \o SelectSeq(wlog, LAMBDA x : x.ev # "pull"),
                   !.pc = IF wret.kind = "ok" THEN "loop" ELSE "return",
                   !.status = IF wret.kind = "ok" THEN @ ELSE "panic",
                   !.at = IF wret.kind = "ok" THEN @ ELSE "slow_scan_write"]
    /\ UNCHANGED <<rvars, wvars, ovars, cvars, caller, wref>>

\* if args.hide_cursor { stdout.show_cursor().unwrap() }: the sequence is
\* handed to the standard output; without hide_cursor main returns
HostShow ==
    /\ host.pc = "loop"
    /\ Alive
    /\ host.fi = Len(host.files)
    /\ IF host.hide_cursor
       THEN \E answers \in WriteAllAnswers(host, CursorSeq("show")) :
               LET w == StdoutWriteAll(host, CursorSeq("show"), answers)
               IN  host' = [w.h EXCEPT
                               !.pc = IF w.ret = "ok" THEN "show_flush" ELSE "return",
                               !.status = IF w.ret = "ok" THEN @ ELSE "panic",
                               !.at = IF w.ret = "ok" THEN @ ELSE "show_cursor"]
       ELSE host' = [host EXCEPT !.pc = "return", !.status = "done"]
    /\ UNCHANGED <<rvars, wvars, ovars, cvars, caller, wref>>

\* show_cursor flushes the standard output; .unwrap() panics when it fails,
\* and main returns when it succeeds
HostShowFlush ==
    /\ host.pc = "show_flush"
    /\ Alive
    /\ \E answers \in FlushAnswers(host) :
         LET w == StdoutFlush(host, answers)
         IN  host' = [w.h EXCEPT
                         !.pc = "return",
                         !.status = IF w.ret = "ok" THEN "done" ELSE "panic",
                         !.at = IF w.ret = "ok" THEN @ ELSE "show_cursor"]
    /\ UNCHANGED <<rvars, wvars, ovars, cvars, caller, wref>>

\* The main thread is at a call on the standard output, which holds its lock
\* from the start of a write_all or flush to its end.
MainAtStdout ==
    \/ host.pc = "hide" /\ host.hide_cursor
    \/ host.pc \in {"hide_flush", "show_flush"}
    \/ host.pc = "call" /\ wpc \in {"o_write", "o_write_flush"}
    \/ host.pc = "loop" /\ host.fi = Len(host.files) /\ host.hide_cursor

\* The handler's thread is at a call on the standard output.
HandlerAtStdout == host.handler \in {"show", "show_flush"}

\* Whether a cleanup finds the lock of the standard output held: it may when
\* the other thread is at a call on it.
Held(other) == IF other THEN BOOLEAN ELSE {FALSE}

\* main has returned or panicked: the runtime's cleanup, run unless the
\* handler's thread has run it.
MainCleanup ==
    /\ host.pc = "return"
    /\ Alive
    /\ \E held \in Held(HandlerAtStdout) :
         \E answers \in CleanupAnswers(host, held) :
            host' = [RuntimeCleanup(host, held, answers) EXCEPT !.pc = "guard"]
    /\ UNCHANGED <<rvars, wvars, ovars, cvars, caller, wref>>

\* The main thread claims the exit of the process, unless the handler's thread
\* has claimed it, and then it waits for the process to end.
MainGuard ==
    /\ host.pc = "guard"
    /\ Alive
    /\ host' = [host EXCEPT !.pc = IF host.handler = "exiting" THEN "blocked" ELSE "exiting"]
    /\ UNCHANGED <<rvars, wvars, ovars, cvars, caller, wref>>

\* The process ends with main's status: 0 on return, 101 on a panic.
MainEnd ==
    /\ host.pc = "exiting"
    /\ Alive
    /\ host' = [host EXCEPT !.end = host.status]
    /\ UNCHANGED <<rvars, wvars, ovars, cvars, caller, wref>>

\* An interrupt arrives and the handler's thread wakes.
Interrupt ==
    /\ host.handler = "idle"
    /\ host.pc # "off"
    /\ Alive
    /\ host' = [host EXCEPT !.handler = "show"]
    /\ UNCHANGED <<rvars, wvars, ovars, cvars, caller, wref>>

\* stdout.show_cursor().unwrap() in the handler: the sequence is handed to the
\* standard output; a panic ends the handler's thread only.
HandlerShow ==
    /\ host.handler = "show"
    /\ Alive
    /\ \E answers \in WriteAllAnswers(host, CursorSeq("show")) :
         LET w == StdoutWriteAll(host, CursorSeq("show"), answers)
         IN  host' = [w.h EXCEPT !.handler = IF w.ret = "ok" THEN "show_flush" ELSE "dead"]
    /\ UNCHANGED <<rvars, wvars, ovars, cvars, caller, wref>>

\* The handler's show_cursor flushes the standard output; .unwrap() panics,
\* ending that thread only, when it fails.
HandlerShowFlush ==
    /\ host.handler = "show_flush"
    /\ Alive
    /\ \E answers \in FlushAnswers(host) :
         LET w == StdoutFlush(host, answers)
         IN  host' = [w.h EXCEPT !.handler = IF w.ret = "ok" THEN "exit" ELSE "dead"]
    /\ UNCHANGED <<rvars, wvars, ovars, cvars, caller, wref>>

\* exit(1) in the handler: the runtime's cleanup, run unless the main thread
\* has run it.
HandlerCleanup ==
    /\ host.handler = "exit"
    /\ Alive
    /\ \E held \in Held(MainAtStdout) :
         \E answers \in CleanupAnswers(host, held) :
            host' = [RuntimeCleanup(host, held, answers) EXCEPT !.handler = "guard"]
    /\ UNCHANGED <<rvars, wvars, ovars, cvars, caller, wref>>

\* The handler's thread claims the exit of the process, unless the main thread
\* has claimed it, and then it waits for the process to end.
HandlerGuard ==
    /\ host.handler = "guard"
    /\ Alive
    /\ host' = [host EXCEPT !.handler = IF host.pc = "exiting" THEN "blocked" ELSE "exiting"]
    /\ UNCHANGED <<rvars, wvars, ovars, cvars, caller, wref>>

\* The process ends with status 1.
HandlerEnd ==
    /\ host.handler = "exiting"
    /\ Alive
    /\ host' = [host EXCEPT !.end = "exit1"]
    /\ UNCHANGED <<rvars, wvars, ovars, cvars, caller, wref>>

NextHost ==
    \/ HideCursor \/ HideCursorFlush \/ HostOpen \/ HostReturn \/ HostShow \/ HostShowFlush
    \/ MainCleanup \/ MainGuard \/ MainEnd
    \/ Interrupt \/ HandlerShow \/ HandlerShowFlush
    \/ HandlerCleanup \/ HandlerGuard \/ HandlerEnd
    \/ OFirst \/ ONext \/ TermWrite \/ TermWriteFlush \/ TermFlush \/ OPause

SpecHost == InitHost /\ [][NextHost]_vars

\* --------------------------------------------------- from_uris: actions
InitOpen ==
    /\ CallerIdle
    /\ RefIdle
    /\ HostIdle
    /\ ReaderIdle
    /\ WriterIdle
    /\ ConfigIdle
    /\ uris \in UNION {[1..n -> Uris] : n \in 0..MaxUris}
    /\ opened = <<>>
    /\ oi = 0
    /\ oret = NoOpenResult
    /\ fslog = <<>>
    /\ lastOpen = NoOpen

\* FromUrisOpen going on to the next URI when one fails to open.
FromUrisOpenSkips ==
    /\ oret = NoOpenResult
    /\ oi < Len(uris)
    /\ \E fsres \in FsResults :
         LET o == Open(uris[oi + 1], fsres)
         IN  /\ lastOpen' = [uri |-> uris[oi + 1], fsres |-> fsres, res |-> o.res, fs |-> o.fs]
             /\ fslog' = fslog \o o.fs
             /\ opened' = IF o.res.kind = "ok" THEN Append(opened, o.res.src) ELSE opened
             /\ oret' = oret
    /\ oi' = oi + 1
    /\ UNCHANGED <<uris, rvars, wvars, cvars, xvars>>

\* for uri in uris { sources.push(Self::open(uri)?); }: one turn of the loop,
\* File::open answering fsres when it is asked.
FromUrisOpen ==
    /\ oret = NoOpenResult
    /\ oi < Len(uris)
    /\ \E fsres \in FsResults :
         LET o == Open(uris[oi + 1], fsres)
         IN  /\ lastOpen' = [uri |-> uris[oi + 1], fsres |-> fsres, res |-> o.res, fs |-> o.fs]
             /\ fslog' = fslog \o o.fs
             /\ opened' = IF o.res.kind = "ok" THEN Append(opened, o.res.src) ELSE opened
             /\ oret' = IF o.res.kind = "ok" THEN oret ELSE FromUrisErr(o.res.error)
    /\ oi' = oi + 1
    /\ UNCHANGED <<uris, rvars, wvars, cvars, xvars>>

\* Ok(Self::concat(sources, handle))
FromUrisReturn ==
    /\ oret = NoOpenResult
    /\ oi = Len(uris)
    /\ oret' = FromUrisOk(ConcatNew(opened))
    /\ UNCHANGED <<uris, opened, oi, fslog, lastOpen, rvars, wvars, cvars, xvars>>

NextOpen == FromUrisOpen \/ FromUrisReturn

SpecOpen == InitOpen /\ [][NextOpen]_vars

\* ------------------------------------------------------ config: actions
InitConfig ==
    /\ CallerIdle
    /\ RefIdle
    /\ HostIdle
    /\ ReaderIdle
    /\ WriterIdle
    /\ OpenIdle
    /\ scfg = NanosConfig(SlowScanConfigDefault)
    /\ cfgLast = NoSet

\* set_base_delay (getset)
SetBaseDelay ==
    /\ \E d \in BaseDelays :
         /\ scfg' = [scfg EXCEPT !.base_delay = d]
         /\ cfgLast' = [op |-> "set_base_delay", expectation |-> d, chunk_count |-> 0,
                        pre |-> scfg]
    /\ UNCHANGED <<rvars, wvars, ovars, xvars>>

\* set_full_width_delay (getset)
SetFullWidthDelay ==
    /\ \E d \in SetDurations :
         /\ scfg' = [scfg EXCEPT !.full_width_delay = d]
         /\ cfgLast' = [op |-> "set_full_width_delay", expectation |-> d, chunk_count |-> 0,
                        pre |-> scfg]
    /\ UNCHANGED <<rvars, wvars, ovars, xvars>>

\* set_control_char_delay (getset)
SetControlCharDelay ==
    /\ \E d \in SetDurations :
         /\ scfg' = [scfg EXCEPT !.control_char_delay = d]
         /\ cfgLast' = [op |-> "set_control_char_delay", expectation |-> d, chunk_count |-> 0,
                        pre |-> scfg]
    /\ UNCHANGED <<rvars, wvars, ovars, xvars>>

\* set_tail_delay (getset)
SetTailDelay ==
    /\ \E t \in BOOLEAN :
         /\ scfg' = [scfg EXCEPT !.tail_delay = t]
         /\ cfgLast' = [op |-> "set_tail_delay", expectation |-> 0, chunk_count |-> 0,
                        pre |-> scfg]
    /\ UNCHANGED <<rvars, wvars, ovars, xvars>>

\* set_base_delay_from_expected_total_duration(expectation, chunk_count)
SetDerived ==
    /\ \E expectation \in Expectations :
         \E chunk_count \in ChunkCounts :
            /\ scfg' = SetBaseDelayFromExpectedTotalDuration(scfg, expectation, chunk_count)
            /\ cfgLast' = [op |-> "set_base_delay_from_expected_total_duration",
                           expectation |-> expectation, chunk_count |-> chunk_count,
                           pre |-> scfg]
    /\ UNCHANGED <<rvars, wvars, ovars, xvars>>

NextConfig ==
    SetBaseDelay \/ SetFullWidthDelay \/ SetControlCharDelay \/ SetTailDelay \/ SetDerived

SpecConfig == InitConfig /\ [][NextConfig]_vars

\* ------------------------------------------------------- reader: the claims
\* The bytes source number k (1-based) has to give: those of its origin, less,
\* for a Stdin, the bytes of the shared stream read through another handle.
HandleBytes(srcs, k) ==
    IF srcs[k].kind = "Stdin"
    THEN SubSeq(srcs[k].data, 1, srcs[k].pos)
         \o SubSeq(srcs[k].data, StdinTaken(srcs, Len(srcs)) + 1, Len(srcs[k].data))
    ELSE srcs[k].data

\* The bytes source number k (1-based) is taken to hold: all of them, or, for a
\* source left behind on a handled error, those it gave before the error.
BytesOf(srcs, k) ==
    IF (k - 1) \in failing THEN SubSeq(srcs[k].data, 1, srcs[k].pos) ELSE HandleBytes(srcs, k)

RECURSIVE ConcatData(_, _)
\* The bytes of the first k sources, in source order.
ConcatData(srcs, k) ==
    IF k = 0 THEN <<>> ELSE ConcatData(srcs, k - 1) \o BytesOf(srcs, k)

\* The bytes already consumed from the source at the cursor.
ConsumedAtCursor ==
    IF InBounds(sources, current)
    THEN SubSeq(sources[current + 1].data, 1, sources[current + 1].pos)
    ELSE <<>>

OutBytes == [k \in 1..Len(out) |-> out[k][2]]

Called == last.ret.kind # "none"
Aborted == last.verdict.kind = "abort"

\* C1: a read with the cursor past the last source returns Ok(0) and leaves
\* the cursor unchanged (the original claim; the code panics instead).
C1_PastEndReadsZero ==
    (Called /\ last.pre >= Len(sources)) => (last.ret = Ok(0) /\ current = last.pre)

\* C2: while the handler has answered nothing but Continue, the bytes returned
\* so far are all bytes of the sources before the cursor, in source order,
\* followed by the bytes consumed from the source at the cursor (the original
\* claim, read in its weakest sense: a source skipped on an error counts for
\* the bytes it gave; a read into an empty buffer still skips a source whose
\* bytes were never returned).
C2_OutputIsConcatenation ==
    verdicts \subseteq {"continue"} =>
        OutBytes = ConcatData(sources, Min(current, Len(sources))) \o ConsumedAtCursor

\* ------------------------------------------------------- writer: the claims
\* The events of kind ev, and the sink-visible events (all but the pulls).
EventsOf(ev) == SelectSeq(wlog, LAMBDA x : x.ev = ev)
Io == SelectSeq(wlog, LAMBDA x : x.ev # "pull")
SleepsOf(i) == Len(SelectSeq(wlog, LAMBDA x : x.ev = "sleep" /\ x.i = i))
Succeeded == wpc = "done" /\ wret = Ok(0)

\* C3: a failed write or flush is the last thing the call does: it returns
\* that error at once, with no later write, flush, sleep or pull.
C3_FailureAborts ==
    \A k \in 1..Len(wlog) :
        wlog[k].res # "ok" =>
            /\ k = Len(wlog)
            /\ wlog[k].ev \in {"write", "flush"}
            /\ wpc = "done"
            /\ wret = Err(wlog[k].res)

\* C3 witness: the flush of the second unit failed, after the first unit's pause.
C3_Witness ==
    /\ Len(wlog) > 0
    /\ wlog[Len(wlog)].ev = "flush" /\ wlog[Len(wlog)].res # "ok" /\ wlog[Len(wlog)].i = 2
    /\ SleepsOf(1) = 1
    /\ wret.kind = "err"

\* C4: the units are written in input order, each write is followed by the
\* flush of that unit before its pause, and the write of the next unit comes
\* right after the pause of the one before it.
C4_OrderedWriteFlushPause ==
    /\ \A k \in 1..Len(EventsOf("write")) :
          /\ EventsOf("write")[k].i = k
          /\ EventsOf("write")[k].x = EncodeUtf8(units[k])
    /\ \A p \in 1..Len(Io) :
          /\ (Io[p].ev = "write" /\ p < Len(Io)) =>
                (Io[p + 1].ev = "flush" /\ Io[p + 1].i = Io[p].i)
          /\ Io[p].ev = "sleep" =>
                /\ p >= 3
                /\ Io[p - 1].ev = "flush" /\ Io[p - 1].i = Io[p].i /\ Io[p - 1].res = "ok"
                /\ Io[p - 2].ev = "write" /\ Io[p - 2].i = Io[p].i /\ Io[p - 2].res = "ok"
          /\ (Io[p].ev = "write" /\ Io[p].i > 1) =>
                (Io[p - 1].ev = "sleep" /\ Io[p - 1].i = Io[p].i - 1)
          /\ Io[p].ev = "flush" => (p >= 2 /\ Io[p - 1].ev = "write")

\* C4 witness: three units written, flushed and paused after, in a finished call.
C4_Witness ==
    /\ Succeeded
    /\ Len(units) = 3
    /\ Len(EventsOf("write")) = 3
    /\ Len(EventsOf("sleep")) >= 2

\* C5: unit i is followed by a pause iff it is not the last unit or tail_delay
\* is set, so a finished call has paused N times with tail_delay and
\* max(N - 1, 0) times without.
C5_PauseUnlessLast ==
    LET n == Len(units)
        pauses == Len(EventsOf("sleep"))
    IN  /\ \A i \in 1..n :
              /\ SleepsOf(i) <= 1
              /\ SleepsOf(i) = 1 => (i < n \/ config.tail_delay)
              /\ (Succeeded \/ wi > i) => (SleepsOf(i) = 1 <=> (i < n \/ config.tail_delay))
        /\ Succeeded =>
              pauses = IF config.tail_delay THEN n ELSE IF n > 0 THEN n - 1 ELSE 0

\* C5 witness: a finished call over three units with tail_delay, paused three times.
C5_Witness ==
    Succeeded /\ Len(units) = 3 /\ config.tail_delay /\ Len(EventsOf("sleep")) = 3

\* C6: every pause lasts the delay of its unit's class: by chars,
\* control_char_delay when width_cjk gives no width, full_width_delay for width
\* 2, base_delay for any other width; by chunks, base_delay always.
C6_DelayByClass ==
    \A k \in 1..Len(wlog) :
        wlog[k].ev = "sleep" =>
            LET w == WidthCjk(units[wlog[k].i])
            IN  wlog[k].x =
                    IF wmode = "chunks" THEN config.base_delay
                    ELSE IF ~w.some THEN config.control_char_delay
                    ELSE IF w.v = 2 THEN config.full_width_delay
                    ELSE config.base_delay

\* C6 witness: by chars, three pauses of three different lengths, one of them
\* after a character of width 0.
C6_Witness ==
    /\ wmode = "chars"
    /\ Cardinality({EventsOf("sleep")[k].x : k \in 1..Len(EventsOf("sleep"))}) = 3
    /\ \E k \in 1..Len(wlog) :
          wlog[k].ev = "sleep" /\ WidthCjk(units[wlog[k].i]) = Some(0)

\* C7: a call whose handler answered Abort returns an error and leaves the
\* cursor at the failing index, and the call that follows a failed call reads
\* the source that failed.
C7_AbortKeepsCursor ==
    /\ Aborted => (last.ret.kind = "err" /\ current = last.pre /\ last.src = last.pre)
    /\ last.after # -1 => last.src = last.after

\* C7 witness: a call that followed an aborted call and read bytes from the
\* source that had failed.
C7_Witness ==
    last.after # -1 /\ last.src = last.after /\ last.ret.kind = "ok" /\ last.ret.n > 0

\* C8 as stated: on Abort the error returned is the failing source's error,
\* whatever the handler.
C8_ReturnsSourceError ==
    Aborted => last.ret = Err(last.under.e)

\* C8 amended: on Abort the error returned is the one the handler's verdict
\* carries, which is the failing source's error whenever the handler hands
\* back the error it was given.
C8_ReturnsVerdictError ==
    Aborted => /\ last.ret = Err(last.verdict.e)
               /\ last.handler = << <<last.under.e, last.pre>> >>
               /\ (last.verdict.e = last.under.e => last.ret = Err(last.under.e))

\* C8 witness: an aborted call whose handler answered with another error than
\* the one the source raised.
C8_Witness ==
    Aborted /\ last.verdict.e # last.under.e /\ last.ret.kind = "err"

\* C9: while the handler has answered nothing but Abort, no byte returned
\* comes from a source after one whose most recent read failed.
C9_NoBytesPastFailingSource ==
    verdicts \subseteq {"abort"} =>
        \A i \in failing : \A k \in 1..Len(out) : out[k][1] <= i

\* C9 witness: under Abort verdicts only, a source that failed after bytes were
\* returned, with a later source that holds bytes.
C9_Witness ==
    /\ verdicts = {"abort"}
    /\ failing # {}
    /\ Len(out) > 0
    /\ \E i \in failing : \E j \in 1..Len(sources) : j > i + 1 /\ Len(sources[j].data) > 0

\* C10: the handler is invoked once, with the source's error and the cursor
\* index, by a call whose underlying read failed, and not at all by any other.
C10_HandlerOncePerError ==
    /\ last.under.kind = "err" => last.handler = << <<last.under.e, last.pre>> >>
    /\ last.under.kind # "err" => last.handler = <<>>

\* C10 witness: a failed read of a source other than the first.
C10_Witness ==
    last.under.kind = "err" /\ last.pre > 0 /\ Len(last.handler) = 1

\* C11: a call whose handler answered Continue advances the cursor by exactly
\* one and returns Ok(0); the caller sees no error.
C11_ContinueSkipsSource ==
    last.verdict.kind = "continue" =>
        /\ last.under.kind = "err"
        /\ current = last.pre + 1
        /\ last.ret = Ok(0)

\* C11 witness: a failed read of the second source, answered Continue, after
\* bytes of the first were returned.
C11_Witness ==
    /\ last.verdict.kind = "continue" /\ last.pre = 1 /\ current = 2
    /\ Len(out) > 0 /\ last.ret.kind = "ok"

\* The list of sources as ConcatInputSource holds it: which sources, in which
\* order (the read offsets are the origins' own).
SourceList(srcs) == [i \in 1..Len(srcs) |-> <<srcs[i].kind, srcs[i].data>>]

\* C12: a call whose source returned n > 0 bytes returns exactly n, hands the
\* caller those n bytes, and leaves the cursor and the list of sources unchanged.
C12_NonEmptyReadKeepsCursor ==
    [][(last'.under.kind = "ok" /\ last'.under.n > 0) =>
          /\ last'.ret = Ok(last'.under.n)
          /\ Len(out') = Len(out) + last'.under.n
          /\ current' = current
          /\ SourceList(sources') = SourceList(sources)]_vars

\* C12 witness: a read of two bytes at once from the second source.
C12_Witness ==
    last.under.kind = "ok" /\ last.under.n = 2 /\ last.pre = 1 /\ last.ret = Ok(2)

\* C13: a call reads at most one source, the one at the cursor; when that
\* source gives 0 bytes the call advances the cursor by one and returns 0, and
\* nothing has been read from any source after the cursor.
C13_OneReadPerCall ==
    /\ Len(last.reads) <= 1
    /\ \A k \in 1..Len(last.reads) : last.reads[k] = last.pre
    /\ last.under = Ok(0) => (current = last.pre + 1 /\ last.ret = Ok(0))
    /\ \A j \in 1..Len(sources) : j > current + 1 => sources[j].pos = 0

\* C13 witness: a non-empty buffer found the first source exhausted while the
\* second still holds bytes: the call returned 0 and read nothing of the second.
C13_Witness ==
    /\ last.under = Ok(0) /\ ~last.emptyBuf /\ last.pre = 0 /\ current = 1
    /\ Len(sources) = 2 /\ Len(sources[2].data) > 0 /\ sources[2].pos = 0

\* C14: a call moves the cursor by 0 or 1, never back, the cursor stays within
\* 0..len(sources), and the source a call reads is never below the cursor the
\* call started with (so a source left behind is not read again).
C14_CursorMonotone ==
    /\ current \in 0..Len(sources)
    /\ Called => (current = last.pre \/ current = last.pre + 1)
    /\ \A k \in 1..Len(last.reads) : last.reads[k] >= last.pre
    /\ \A k \in 1..Len(out) : out[k][1] <= current /\ (k > 1 => out[k - 1][1] <= out[k][1])

\* C14 witness: the cursor has reached len(sources) after both sources gave bytes.
C14_Witness ==
    /\ Len(sources) = 2 /\ current = 2
    /\ \E k \in 1..Len(out) : out[k][1] = 0
    /\ \E k \in 1..Len(out) : out[k][1] = 1

\* ---------------------------------------------------- from_uris: the claims
\* The source a URI that opened stands for.
SourceOf(uri) == IF uri = "-" THEN Stdin ELSE File(uri)

\* The URIs of a list that are paths, in order.
FilePaths(us) == SelectSeq(us, LAMBDA u : u \notin {"", "-"})

\* C15: InputSource::open gives UriIsEmpty with no cause for "", Stdin for "-"
\* (neither touching the file system), and for any other URI asks the file
\* system once: File on success, else CannotOpenUri carrying the URI and the OS
\* error as its source.
C15_OpenMapsUri ==
    oi > 0 =>
        LET u == lastOpen.uri
            r == lastOpen.res
        IN  /\ u = "" => /\ r.kind = "err"
                         /\ r.error.kind = "UriIsEmpty"
                         /\ r.error.uri = u
                         /\ ~r.error.source.some
                         /\ lastOpen.fs = <<>>
            /\ u = "-" => /\ r.kind = "ok"
                          /\ r.src.kind = "Stdin"
                          /\ lastOpen.fs = <<>>
            /\ u \notin {"", "-"} =>
                  /\ lastOpen.fs = <<u>>
                  /\ lastOpen.fsres = "ok" => (r.kind = "ok" /\ r.src = File(u))
                  /\ lastOpen.fsres # "ok" => /\ r.kind = "err"
                                              /\ r.error.kind = "CannotOpenUri"
                                              /\ r.error.uri = u
                                              /\ r.error.source = Cause(lastOpen.fsres)

\* C15 witness: path "b" refused by the OS with EACCES, after "-" was opened.
C15_Witness ==
    /\ oi = 2 /\ uris[1] = "-" /\ lastOpen.uri = "b"
    /\ lastOpen.res.error = Error("CannotOpenUri", "b", Cause("EACCES"))
    /\ fslog = <<"b">>

\* C16: from_uris returns the error of the first URI that fails to open, every
\* URI before it having opened, none after it tried, and no reader; it returns
\* a reader, over all the sources in list order, only when every URI opened.
C16_FromUrisFirstFailure ==
    /\ oret.kind = "err" =>
          /\ oi >= 1
          /\ oret.error.kind \in {"UriIsEmpty", "CannotOpenUri"}
          /\ oret.error.uri = uris[oi]
          /\ oret.error = lastOpen.res.error
          /\ Len(opened) = oi - 1
          /\ \A j \in 1..(oi - 1) : uris[j] # "" /\ opened[j] = SourceOf(uris[j])
          /\ fslog = FilePaths(SubSeq(uris, 1, oi))
          /\ oret.reader = NoReader
    /\ oret.kind = "ok" =>
          /\ oi = Len(uris)
          /\ Len(opened) = Len(uris)
          /\ \A j \in 1..Len(uris) : uris[j] # "" /\ opened[j] = SourceOf(uris[j])
          /\ oret.reader.sources = opened
          /\ oret.reader.current = 0

\* C16 witness: of three URIs the second failed to open; the first was opened
\* and the third, a path, was never handed to the file system.
C16_Witness ==
    /\ oret.kind = "err" /\ Len(uris) = 3 /\ oi = 2
    /\ uris[1] = "a" /\ uris[2] = "b" /\ uris[3] = "a"
    /\ fslog = <<"a", "b">> /\ Len(opened) = 1

\* ------------------------------------------------------- config: the claims
Derived == cfgLast.op = "set_base_delay_from_expected_total_duration"

\* C17: the derived setter sets base_delay to expectation / intervals, truncated
\* to the nanosecond, intervals being chunk_count with a tail delay and
\* max(chunk_count - 1, 0) without, and to zero when intervals is 0; 1000 ms
\* over 10 chunks with a tail delay, and over 11 without, both give 100 ms.
C17_DerivedBaseDelay ==
    Derived =>
        LET T == cfgLast.expectation
            N == cfgLast.chunk_count
            tail == cfgLast.pre.tail_delay
            intervals == IF tail THEN N ELSE Max(N - 1, 0)
            base == scfg.base_delay
        IN  /\ intervals = 0 => base = 0
            /\ intervals > 0 => (base * intervals <= T /\ T < (base + 1) * intervals)
            /\ (T = Millis(1000) /\ N = 10 /\ tail) => base = Millis(100)
            /\ (T = Millis(1000) /\ N = 11 /\ ~tail) => base = Millis(100)

\* C17 witness: 1000 ms over 10 chunks with a tail delay gave 100 ms.
C17_Witness ==
    /\ Derived /\ cfgLast.expectation = Millis(1000) /\ cfgLast.chunk_count = 10
    /\ cfgLast.pre.tail_delay /\ scfg.base_delay = Millis(100)

\* C18: the derived setter changes base_delay only: full_width_delay,
\* control_char_delay and tail_delay are as they were before the call.
C18_DerivedTouchesBaseOnly ==
    Derived =>
        /\ scfg.full_width_delay = cfgLast.pre.full_width_delay
        /\ scfg.control_char_delay = cfgLast.pre.control_char_delay
        /\ scfg.tail_delay = cfgLast.pre.tail_delay

\* C18 witness: the call changed base_delay on a configuration whose other
\* three fields had all been set away from their defaults.
C18_Witness ==
    /\ Derived /\ scfg.base_delay # cfgLast.pre.base_delay
    /\ scfg.full_width_delay = 5 /\ scfg.control_char_delay = 5 /\ scfg.tail_delay

\* ------------------------------------------------------- timing: the claims
RECURSIVE SumTo(_, _)
SumTo(seq, k) == IF k = 0 THEN 0 ELSE SumTo(seq, k - 1) + seq[k]

\* The delays selected for the pauses made so far, in order.
Delays == LET sleeps == EventsOf("sleep") IN [k \in 1..Len(sleeps) |-> sleeps[k].x]

\* The write and flush of each of the first k items took no longer than the
\* delay selected after it (ds the delays).
OnTime(ds, k) == \A j \in 1..k : wclock.costs[j] <= ds[j]

\* The number of pauses a successful call makes over its items.
Intervals == IF config.tail_delay THEN Len(units) ELSE Max(Len(units) - 1, 0)

\* C19 (as claimed): whenever no write+flush took longer than its delay, the
\* k-th pause ends at the start of the call plus the first k selected delays.
C19_PausesEndOnDeadline ==
    LET ds == Delays
    IN  \A k \in 1..Len(wclock.ends) :
            OnTime(ds, k) => wclock.ends[k] = SumTo(ds, k)

\* C19 (amended): built with feature "unstable", the k-th pause ends at the
\* start of the call plus the first k selected delays whenever no write+flush
\* took longer than its delay; in the default build it ends at that time plus
\* the time the first k write+flushes took.  A successful call makes one pause
\* per item, less one without a tail delay.
C19_PausesEndOnDeadlineWhenUnstable ==
    LET ds == Delays
    IN  /\ Len(wclock.ends) = Len(ds)
        /\ \A k \in 1..Len(wclock.ends) :
              /\ (unstable /\ OnTime(ds, k)) => wclock.ends[k] = SumTo(ds, k)
              /\ ~unstable => wclock.ends[k] = SumTo(ds, k) + SumTo(wclock.costs, k)
        /\ Succeeded => Len(wclock.ends) = Intervals
        /\ (Succeeded /\ unstable /\ wmode = "chunks" /\ Intervals > 0
                /\ OnTime(ds, Intervals)) =>
              wclock.ends[Intervals] = Intervals * config.base_delay

\* C19 witness: built with feature "unstable", three items written with a tail
\* delay, each write+flush taking time but no longer than its delay.
C19_Witness ==
    /\ unstable /\ Succeeded /\ config.tail_delay /\ Len(wclock.ends) = 3
    /\ \A j \in 1..3 : wclock.costs[j] = 1 /\ Delays[j] >= 1
    /\ wclock.ends[3] = SumTo(Delays, 3)

\* C20: a call on an empty sequence returns success at once: no write, no
\* flush, no pause, whatever the configuration.
C20_EmptyInputDoesNothing ==
    Len(units) = 0 =>
        /\ Io = <<>>
        /\ wclock = ZeroClock
        /\ wpc # "next" => Succeeded

\* C20 witness: by_chars returned success on an empty sequence with a tail
\* delay configured.
C20_Witness ==
    /\ wmode = "chars" /\ Len(units) = 0 /\ config.tail_delay /\ Succeeded
    /\ config.base_delay > 0

\* ------------------------------------------------ callers of read: claims
\* C22 (as claimed): a consumer (read_to_end, or a buffered line reader) that
\* stopped at a zero-length result, the most recent read of no source having
\* failed, has received the bytes of every source of the chain.
C22_ConsumerReceivesAll ==
    (caller.stopped /\ last.ret = Ok(0) /\ failing = {}) =>
        OutBytes = ConcatData(sources, Len(sources))

\* C23: with a handler that always answers Continue, a caller that keeps
\* calling read has had exactly one zero-length result per source the cursor
\* has left behind, and the cursor ends up past the last source.
C23_CallerReachesEnd ==
    /\ [](caller.zeros = [k \in 1..current |-> k - 1])
    /\ <>(current = Len(sources))

\* C23 witness: two sources, both left behind, one of them on an error the
\* handler answered with Continue, after bytes of both were returned.
C23_Witness ==
    /\ caller.mode = "forever" /\ Len(sources) = 2 /\ current = 2
    /\ caller.zeros = <<0, 1>> /\ verdicts = {"continue"}
    /\ \E k \in 1..Len(out) : out[k][1] = 0
    /\ \E k \in 1..Len(out) : out[k][1] = 1

\* ------------------------------------------------- writer: more claims
\* C24: the iterator is asked for unit i + 1 only once unit i has been written
\* and flushed: the pull comes right after the flush of unit i, and the pause
\* of unit i right after that pull.
C24_LookaheadAfterFlush ==
    \A p \in 1..Len(wlog) :
        /\ (wlog[p].ev = "pull" /\ wlog[p].i >= 2) =>
              /\ p >= 3
              /\ wlog[p - 1].ev = "flush" /\ wlog[p - 1].i = wlog[p].i - 1
              /\ wlog[p - 1].res = "ok"
              /\ wlog[p - 2].ev = "write" /\ wlog[p - 2].i = wlog[p].i - 1
              /\ wlog[p - 2].res = "ok"
              /\ \A q \in 1..(p - 1) :
                    ~(wlog[q].ev = "sleep" /\ wlog[q].i = wlog[p].i - 1)
        /\ wlog[p].ev = "sleep" =>
              (p >= 2 /\ wlog[p - 1].ev = "pull" /\ wlog[p - 1].i = wlog[p].i + 1)

\* C24 witness: by_chars finished three units: the iterator was pulled four
\* times, the last pull finding it empty.
C24_Witness ==
    /\ Succeeded /\ wmode = "chars" /\ Len(units) = 3
    /\ Len(EventsOf("pull")) = 4 /\ Len(EventsOf("flush")) = 3
    /\ Len(EventsOf("sleep")) = 2

\* ---------------------------------------------------- output.rs: claims
RECURSIVE Flatten(_, _)
\* The concatenation of the first k sequences of seqs.
Flatten(seqs, k) == IF k = 0 THEN <<>> ELSE Flatten(seqs, k - 1) \o seqs[k]

\* The bytes the sink was handed by the writes that succeeded, in order.
Delivered ==
    LET ws == SelectSeq(wlog, LAMBDA x : x.ev = "write" /\ x.res = "ok")
    IN  Flatten([k \in 1..Len(ws) |-> ws[k].x], Len(ws))

\* C25 (as claimed): when slow_scan_write_use_chars returns success the sink
\* was handed exactly the UTF-8 encodings of the characters, in input order.
C25_UseCharsWritesEncodings ==
    (wmode = "use_chars" /\ Succeeded) =>
        Delivered = Flatten([k \in 1..Len(units) |-> EncodeUtf8(units[k])], Len(units))

\* Two sink-visible events are the same event.
SameEvent(a, b) == a.ev = b.ev /\ a.i = b.i /\ a.res = b.res /\ a.x = b.x

\* C26: slow_scan_write, run on the items, delay and sink answers of a call of
\* slow_scan_write_by_chunks with tail_delay = false, produces the same writes,
\* flushes and pauses in the same order, and returns the same result.
C26_WriteMatchesByChunks ==
    wref.set =>
        /\ Len(Io) <= Len(wref.io)
        /\ \A p \in 1..Len(Io) : SameEvent(Io[p], wref.io[p])
        /\ wpc = "done" => (Len(Io) = Len(wref.io) /\ wret = wref.ret)

\* C26 witness: both calls finished three chunks with two pauses each.
C26_Witness ==
    /\ wref.set /\ wmode = "write" /\ Succeeded /\ Len(units) = 3
    /\ Len(EventsOf("sleep")) = 2 /\ Len(wref.io) = 8 /\ wref.ret = Ok(0)

\* ------------------------------------------------------ main.rs: claims
\* The events the terminal has been sent: those of the calls that returned and
\* those of the call in progress.
TermIo == IF host.pc = "call" THEN host.term \o Io ELSE host.term

\* The bytes the terminal has accepted, in order.
TermBytes ==
    LET ws == SelectSeq(TermIo, LAMBDA x : x.ev = "write" /\ x.res = "ok")
    IN  Flatten([k \in 1..Len(ws) |-> ws[k].x], Len(ws))

\* The bytes of a file argument: the encodings of its units, nothing when it
\* does not open.
FileBytes(file) ==
    IF file.opens
    THEN Flatten([k \in 1..Len(file.units) |-> EncodeUtf8(file.units[k])], Len(file.units))
    ELSE <<>>

\* The bytes of file argument number j: those of the file, each time it is
\* named; those of the standard input the first time "-" is named, nothing
\* after that.
ArgBytes(j) ==
    IF host.files[j].name = "-" /\ \E i \in 1..(j - 1) : host.files[i].name = "-"
    THEN <<>>
    ELSE FileBytes(host.files[j])

\* The bytes of the first k file arguments, in argument order, and the names
\* of those among them that do not open.
HostBytes(k) == Flatten([j \in 1..k |-> ArgBytes(j)], k)
FailedNames(k) ==
    LET failed == SelectSeq(SubSeq(host.files, 1, k), LAMBDA f : ~f.opens)
    IN  [j \in 1..Len(failed) |-> failed[j].name]

\* C21: between two files and when main returns the terminal has the bytes of
\* every file argument taken so far that opened, in argument order, and the
\* diagnostic stream the name of every one that did not; the run ends early
\* only on an interrupt or a failed write to the terminal (of a unit or of a
\* cursor sequence), never on a failed open, and a main that returns has taken
\* every file argument.
C21_FailedOpenIsSkipped ==
    /\ (host.pc = "loop" \/ host.status = "done") =>
          /\ TermBytes = HostBytes(host.fi)
          /\ host.diag = FailedNames(host.fi)
    /\ host.status = "done" => host.fi = Len(host.files)
    /\ host.status = "panic" =>
          /\ host.at \in {"hide_cursor", "slow_scan_write", "show_cursor"}
          /\ host.at = "slow_scan_write" => wret.kind = "err"
          /\ host.at = "hide_cursor" => host.fi = 0
          /\ host.at = "show_cursor" => host.fi = Len(host.files)
    /\ host.end \in {"done", "panic"} => host.end = host.status
    /\ host.end = "exit1" => host.handler = "exiting"

\* C21 witness: the first file argument did not open, the second was written,
\* and the run ended normally.
C21_Witness ==
    /\ host.end = "done" /\ Len(host.files) = 2
    /\ ~host.files[1].opens /\ host.files[2].opens
    /\ host.diag = <<"a">> /\ TermBytes = <<65, 10>>

\* C27 (as claimed): a run with hide_cursor that has ended, in whatever way
\* (main returned, main panicked, the handler exited), has left the cursor shown.
C27_CursorShownAtExit ==
    (host.hide_cursor /\ host.end # "running") => host.cursor = "shown"

\* C28 (as claimed): every unit sent to the terminal after another, of the same
\* file or the next, comes right after a pause of the configured delay.
C28_PauseBetweenAllUnits ==
    \A p \in 2..Len(TermIo) :
        (TermIo[p].ev = "write" /\ \E q \in 1..(p - 1) : TermIo[q].ev = "write") =>
            (TermIo[p - 1].ev = "sleep" /\ TermIo[p - 1].x = config.base_delay)

====
